---- MODULE Spec2Model ----
(***************************************************************************)
(* Job orchestration engine of the MS2Int web server: the three job        *)
(* managers (batch prediction, rescore pipeline, PTM/FLR pipeline), their  *)
(* background workers, progress callbacks, status reads and retention      *)
(* cleanup, over a small model of the jobs directory.                      *)
(***************************************************************************)
EXTENDS Integers, Sequences, FiniteSets, TLC

\* ------------------------------------------------------------------ bounds
MaxJobs == 2
NumIds == 2
MaxRows == 1025
TickHours == 25
MaxClock == 25
LiveJobs == 1

\* ------------------------------------------------------- program constants
batch_size == 1024
JOB_RETENTION_HOURS == 24
PTM_TOTAL_STEPS == 8
RESCORE_TOTAL_STEPS == 6

Managers == {"batch", "rescore", "ptm"}
PipelineManagers == {"rescore", "ptm"}
JobSlots == 1..MaxJobs
IDs == 1..NumIds

PENDING == "pending"
RUNNING == "running"
COMPLETED == "completed"
FAILED == "failed"
JobStatus == {PENDING, RUNNING, COMPLETED, FAILED}
Terminal == {COMPLETED, FAILED}

\* Optional[...] fields: None for a timestamp, None for the error text
NoTime == "<None>"
NoError == "<None>"

\* datetime.now(timezone.utc) as stored in started_at and finished_at.  No
\* manager reads these two fields back, so the record keeps only that the
\* field is set; created_at, which cleanup reads, keeps the clock value.
datetime_now(t) == "<datetime>"

Min(a, b) == IF a <= b THEN a ELSE b

\* One manager singleton is modelled at a time.  job_manager, rescore_job_manager
\* and ptm_job_manager share no lock, no dict and no directory name (their ids
\* are prefixed "", "rsc_" and "ptm_"), so the system is their product; Init
\* picks which of the three classes the instance is.
VARIABLES
    mgr,        \* the manager class of this instance
    now,        \* wall clock, in hours
    jobs,       \* the JobInfo objects, by object identity (slot)
    sub,        \* position of the submit() call that creates each object
    thread,     \* each worker thread: position, loop/step index, raised error, df
    registry,   \* self._jobs: id -> slot of the record, 0 = no such key
    running,    \* self._running (pipeline managers)
    lock,       \* self._lock: "free" or its holder
    dirs,       \* the job directories that exist under JOBS_DIR, by id
    files,      \* the files in them: <<id, name>>
    cl,         \* the cleanup_old_jobs() call in progress, if any
    call        \* a call of one of the library functions: its name, its
                \* arguments and, once it has run, what it returned

vars == <<mgr, now, jobs, sub, thread, registry, running, lock, dirs, files, cl,
          call>>

\* ------------------------------------------------ tokenizer (ion_labels.py)
Letters ==
    {"A", "B", "C", "D", "E", "F", "G", "H", "I", "J", "K", "L", "M",
     "N", "O", "P", "Q", "R", "S", "T", "U", "V", "W", "X", "Y", "Z"}

\* str.find(pat, i) on 1-based positions: the least j >= i where pat occurs, 0 if none
FindFrom(seq, pat, i) ==
    LET cands == {j \in i..(Len(seq) - Len(pat) + 1) :
                     SubSeq(seq, j, j + Len(pat) - 1) = pat}
    IN  IF cands = {} THEN 0 ELSE CHOOSE j \in cands : \A k \in cands : j <= k

\* str.startswith(pat, i)
StartsWithAt(seq, pat, i) ==
    /\ i + Len(pat) - 1 <= Len(seq)
    /\ SubSeq(seq, i, i + Len(pat) - 1) = pat

TokOk(tokens) == [ok |-> TRUE, tokens |-> tokens, err |-> ""]
TokErr(msg) == [ok |-> FALSE, tokens |-> <<>>, err |-> msg]

\* the while loop of tokenize_peptide, from position i with the tokens so far
RECURSIVE TokLoop(_, _, _)
TokLoop(seq, i, tokens) ==
    IF i > Len(seq) THEN TokOk(tokens)
    ELSE IF StartsWithAt(seq, <<"-", "[", "]">>, i)
         THEN TokLoop(seq, i + 3, Append(tokens, <<"-", "[", "]">>))
    ELSE IF seq[i] \in Letters
         THEN IF i + 1 <= Len(seq) /\ seq[i + 1] = "["
              THEN LET j == FindFrom(seq, <<"]">>, i + 1)
                   IN  IF j = 0 THEN TokErr("Residue modification missing ']'")
                       ELSE TokLoop(seq, j + 1, Append(tokens, SubSeq(seq, i, j)))
              ELSE TokLoop(seq, i + 1, Append(tokens, <<seq[i]>>))
    ELSE TokErr("Invalid character")

tokenize_peptide(seq) ==
    IF Len(seq) > 0 /\ seq[1] = "["
    THEN LET j == FindFrom(seq, <<"]", "-">>, 1)
         IN  IF j = 0 THEN TokErr("N-terminus modification missing ']-'")
             ELSE TokLoop(seq, j + 2, <<SubSeq(seq, 1, j + 1)>>)
    ELSE TokLoop(seq, 1, <<>>)

\* ------------------------------------------------------ uploaded CSV files
Required == {"Sequence", "Charge", "collision_energy", "Fragmentation"}

SeqPlain == <<"A", "C", "D", "K">>
SeqSeleno == <<"A", "U", "K">>
SeqBadChar == <<"A", "1", "K">>

\* a parsed upload (the DataFrame): its columns, its number of rows, the
\* Sequence of its rows, and whether its Charge cells are integers
\* (a header-only file has no rows and so no cells)
ColumnSets == {Required, Required \cup {"Length"}, Required \ {"Charge"}}
CsvUploads ==
    {[cols |-> c, n |-> 0, seq |-> <<>>, charge_ok |-> TRUE] : c \in ColumnSets}
    \cup {[cols |-> c, n |-> 1, seq |-> SeqPlain, charge_ok |-> b] :
             c \in ColumnSets, b \in BOOLEAN}
    \cup {[cols |-> c, n |-> 1, seq |-> SeqBadChar, charge_ok |-> TRUE] :
             c \in ColumnSets}
    \cup {[cols |-> c, n |-> MaxRows, seq |-> SeqSeleno, charge_ok |-> TRUE] :
             c \in ColumnSets}
NoUpload == [cols |-> {}, n |-> 0, seq |-> <<>>, charge_ok |-> TRUE]

\* JobManager.submit up to the point where the job id is drawn: the error it
\* raises for upload p, "" when it raises none.  The sequences are tokenized
\* only to fill in a Length column the upload lacks.
SubmitRaises(p) ==
    IF Required \ p.cols # {} THEN "Missing required columns"
    ELSE IF "Length" \notin p.cols /\ p.n > 0 /\ ~tokenize_peptide(p.seq).ok
         THEN tokenize_peptide(p.seq).err
    ELSE ""

\* ------------------------------------------------------------- job records
TotalSteps(m) ==
    IF m = "ptm" THEN PTM_TOTAL_STEPS
    ELSE IF m = "rescore" THEN RESCORE_TOTAL_STEPS
    ELSE 0

\* JobInfo(...) / PtmJobInfo(...) / RescoreJobInfo(...) as constructed by submit
JobInfo(m, id, total, t) ==
    [job_id |-> id, total_samples |-> total,
     status |-> PENDING, processed |-> 0,
     current_step |-> 0, total_steps |-> TotalSteps(m), step_message |-> "",
     metrics |-> {}, created_at |-> t, started_at |-> NoTime,
     finished_at |-> NoTime, error |-> NoError, result_files |-> {}]

\* a slot no submit() has filled yet
NoJob == JobInfo("batch", 0, 0, 0)
NoThread == [pc |-> "none", k |-> 0, err |-> "", df |-> NoUpload, res |-> {}]
NoCleanup == [pc |-> "idle", now |-> 0, to_remove |-> {}]

\* job_dir = JOBS_DIR / job_id
Dir(j) == jobs[j].job_id
DirFiles(d) == {f \in files : f[1] = d}
File(d, name) == <<d, name>>

\* JobManager.get_status / PtmJobManager.get_status / RescoreJobManager.get_status:
\* the slot of the record stored under id, 0 for None
get_status(id) == registry[id]

\* no library function is being called on its own
NoCall == [fn |-> "none"]

\* a manager after construction, with no job submitted
Idle ==
    /\ now = 0
    /\ jobs = [j \in JobSlots |-> NoJob]
    /\ sub = [j \in JobSlots |-> "free"]
    /\ thread = [j \in JobSlots |-> NoThread]
    /\ registry = [id \in IDs |-> 0]
    /\ running = FALSE
    /\ lock = "free"
    /\ dirs = {}
    /\ files = {}
    /\ cl = NoCleanup

Init ==
    /\ mgr \in Managers
    /\ Idle
    /\ call = NoCall

\* ------------------------------------------------------------------- clock
Tick ==
    /\ now + TickHours <= MaxClock
    /\ now' = now + TickHours
    /\ UNCHANGED <<call, mgr, jobs, sub, thread, registry, running, lock, dirs, files, cl>>

\* ------------------------------------------------------------------ submit
NextSlot(j) == sub[j] = "free" /\ (IF j = 1 THEN TRUE ELSE sub[j - 1] # "free")

\* uuid.uuid4().hex[:8]: any of the 16^8 values.  Ids are named in the order
\* they are first drawn: a draw repeats an id drawn before or is the next new one.
Drawn == {jobs[j].job_id : j \in {i \in JobSlots : sub[i] # "free"}}
uuid4(id) == id \in Drawn \/ (id \in IDs /\ \A i \in 1..(id - 1) : i \in Drawn)

\* JobManager.submit on an upload it rejects: raises before anything exists
SubmitReject(p) ==
    /\ mgr = "batch"
    /\ SubmitRaises(p) # ""
    /\ UNCHANGED vars

\* JobManager.submit, lines 91-120: parse and validate, draw the id, make the
\* directory, save input.csv, construct the JobInfo
SubmitCreate(j, id, p) ==
    /\ mgr = "batch"
    /\ NextSlot(j)
    /\ SubmitRaises(p) = ""
    /\ uuid4(id)
    /\ dirs' = dirs \cup {id}
    /\ files' = files \cup {<<id, "input.csv">>}
    /\ jobs' = [jobs EXCEPT ![j] = JobInfo(mgr, id, p.n, now)]
    /\ thread' = [thread EXCEPT ![j] = [NoThread EXCEPT !.df = [p EXCEPT !.cols = {}]]]
    /\ sub' = [sub EXCEPT ![j] = "created"]
    /\ UNCHANGED <<call, mgr, now, registry, running, lock, cl>>

\* PtmJobManager.submit / RescoreJobManager.submit up to the JobInfo: draw the
\* id, rename the upload session's directory to the job directory (session)
\* or make an empty one.  Path.rename onto a non-empty directory raises.
PipelineSubmitRaises(id, session) ==
    session /\ id \in dirs /\ DirFiles(id) # {}

PipelineSubmitReject(id, session) ==
    /\ mgr \in PipelineManagers
    /\ uuid4(id)
    /\ PipelineSubmitRaises(id, session)
    /\ UNCHANGED vars

PipelineSubmitCreate(j, id, session) ==
    /\ mgr \in PipelineManagers
    /\ NextSlot(j)
    /\ uuid4(id)
    /\ ~PipelineSubmitRaises(id, session)
    /\ dirs' = dirs \cup {id}
    /\ files' = IF session THEN files \cup {<<id, "uploads">>} ELSE files
    /\ jobs' = [jobs EXCEPT ![j] = JobInfo(mgr, id, 0, now)]
    /\ thread' = [thread EXCEPT ![j] = NoThread]
    /\ sub' = [sub EXCEPT ![j] = "created"]
    /\ UNCHANGED <<call, mgr, now, registry, running, lock, cl>>

\* with self._lock: self._jobs[job_id] = job
SubmitInsert(j) ==
    /\ sub[j] = "created"
    /\ lock = "free"
    /\ registry' = [registry EXCEPT ![Dir(j)] = j]
    /\ sub' = [sub EXCEPT ![j] = "inserted"]
    /\ UNCHANGED <<call, mgr, now, jobs, thread, running, lock, dirs, files, cl>>

\* thread = threading.Thread(target=self._run_job, ...); thread.start();
\* return job: start() does not wait for the thread, submit returns at once
SubmitStart(j) ==
    /\ sub[j] = "inserted"
    /\ thread' = [thread EXCEPT ![j].pc = "begin"]
    /\ sub' = [sub EXCEPT ![j] = "returned"]
    /\ UNCHANGED <<call, mgr, now, jobs, registry, running, lock, dirs, files, cl>>

\* ------------------------------------------------- worker: JobManager._run_job
\* a first block that stamps the start time and leaves the status alone
MarkRunning_KeepsStatus(rec, t) == [rec EXCEPT !.started_at = datetime_now(t)]

\* a first block that sets the status and leaves the start time for later
MarkRunning_StatusOnly(rec, t) == [rec EXCEPT !.status = RUNNING]

\* with self._lock: job.status = RUNNING; job.started_at = now
MarkRunning(rec, t) == [rec EXCEPT !.status = RUNNING, !.started_at = datetime_now(t)]

\* progress_cb(processed, total) of JobManager._run_job
progress_cb(rec, processed) == [rec EXCEPT !.processed = processed]

\* progress_callback(step, total, msg, **kwargs) of the pipeline managers;
\* every keyword the pipelines pass is an attribute of the job record
progress_callback(rec, step, total, msg, kwargs) ==
    [rec EXCEPT !.current_step = step, !.total_steps = total,
                !.step_message = msg, !.metrics = @ \cup kwargs]

\* the metrics the success block of _run_job assigns from the result dict
ResultMetrics(m) ==
    IF m = "ptm"
    THEN {"total_phospho_psms", "mono_phospho_psms", "td_candidates",
          "flr_1pct_psms", "flr_5pct_psms", "phosphosites_exported"}
    ELSE IF m = "rescore"
    THEN {"msms_total", "msms_filtered", "accepted_psms", "accepted_peptides"}
    ELSE {}

\* a success block that does not stamp the finish time
MarkCompleted_NoTimestamp(rec, result_files, t) ==
    IF mgr = "batch"
    THEN [rec EXCEPT !.status = COMPLETED, !.processed = rec.total_samples]
    ELSE [rec EXCEPT !.status = COMPLETED, !.current_step = rec.total_steps,
                     !.step_message = "Done",
                     !.metrics = @ \cup ResultMetrics(mgr),
                     !.result_files = result_files]

\* the success block of _run_job, under the lock
MarkCompleted(rec, result_files, t) ==
    IF mgr = "batch"
    THEN [rec EXCEPT !.status = COMPLETED, !.processed = rec.total_samples,
                     !.finished_at = datetime_now(t)]
    ELSE [rec EXCEPT !.status = COMPLETED, !.current_step = rec.total_steps,
                     !.step_message = "Done", !.finished_at = datetime_now(t),
                     !.metrics = @ \cup ResultMetrics(mgr),
                     !.result_files = result_files]

\* a failure block that also resets the step index
MarkFailed_ResetsStep(rec, e, t) ==
    [rec EXCEPT !.status = FAILED, !.error = e, !.finished_at = datetime_now(t),
                !.current_step = 0]

\* a failure block that marks the job failed and stores nothing else
MarkFailed_StatusOnly(rec, e, t) == [rec EXCEPT !.status = FAILED]

\* except Exception as e: the failure block of _run_job, under the lock
MarkFailed(rec, e, t) ==
    [rec EXCEPT !.status = FAILED, !.error = e, !.finished_at = datetime_now(t)]

\* a success block that falls through into the failure block
AfterOutcome_FallsThrough(m) == "except"

\* where _run_job goes after its success or failure block: the pipeline
\* managers have a finally block, the batch manager returns
AfterOutcome(m) == IF m = "batch" THEN "done" ELSE "finally"

\* first locked block of _run_job
RunJobBegin(j) ==
    /\ thread[j].pc = "begin"
    /\ lock = "free"
    /\ jobs' = [jobs EXCEPT ![j] = MarkRunning(jobs[j], now)]
    /\ running' = IF mgr \in PipelineManagers THEN TRUE ELSE running
    /\ thread' = [thread EXCEPT ![j].pc =
                     IF mgr = "batch" THEN "predict" ELSE "pipe_init"]
    /\ UNCHANGED <<call, mgr, now, sub, registry, lock, dirs, files, cl>>

\* predict_fn(sequences=..., charges=df["Charge"].astype(int).tolist(), ...)
\* up to the loop of predict_batch_from_arrays: astype(int) raises on a cell
\* that is no integer; _peptide_length tokenizes every sequence (with the
\* tokenizer ion_labels.py mirrors) and raises on a bad one; with no row the
\* loop body never runs and torch.cat([]) raises after it.
PredictRaises(df) ==
    IF ~df.charge_ok THEN "invalid literal for int()"
    ELSE IF df.n > 0 /\ ~tokenize_peptide(df.seq).ok THEN tokenize_peptide(df.seq).err
    ELSE IF df.n = 0 THEN "torch.cat(): expected a non-empty list of Tensors"
    ELSE ""

PredictStart(j) ==
    /\ thread[j].pc = "predict"
    /\ LET e == PredictRaises(thread[j].df)
       IN  thread' = [thread EXCEPT ![j].pc = IF e = "" THEN "loop" ELSE "except",
                                    ![j].err = e, ![j].k = 0]
    /\ UNCHANGED <<call, mgr, now, jobs, sub, registry, running, lock, dirs, files, cl>>

\* a batch end that is not clipped to the number of rows
BatchEnd_Unclipped(start, n) == start + batch_size

\* end = min(start + batch_size, n)
BatchEnd(start, n) == Min(start + batch_size, n)

\* the next value of range(0, n, batch_size)
NextStart(start) == start + batch_size

\* one iteration of for start in range(0, n, batch_size), with its
\* progress_callback(processed, n)
PredictBatch(j) ==
    /\ thread[j].pc = "loop"
    /\ lock = "free"
    /\ LET start == thread[j].k
           processed == BatchEnd(start, thread[j].df.n)
       IN  /\ jobs' = [jobs EXCEPT ![j] = progress_cb(jobs[j], processed)]
           /\ thread' = [thread EXCEPT
                  ![j].k = NextStart(start),
                  ![j].pc = IF NextStart(start) < thread[j].df.n
                            THEN "loop" ELSE "save"]
    /\ UNCHANGED <<call, mgr, now, sub, registry, running, lock, dirs, files, cl>>

\* with h5py.File(result_path, "w"): raises when the job directory is gone
\* or the write fails (io_ok = FALSE)
SaveResult(j, io_ok) ==
    /\ thread[j].pc = "save"
    /\ IF Dir(j) \in dirs /\ io_ok
       THEN /\ files' = files \cup {File(Dir(j), "result.h5")}
            /\ thread' = [thread EXCEPT ![j].pc = "complete"]
       ELSE /\ files' = files
            /\ thread' = [thread EXCEPT ![j].pc = "except",
                                        ![j].err = "Unable to create file"]
    /\ UNCHANGED <<call, mgr, now, jobs, sub, registry, running, lock, dirs, cl>>

RunJobComplete(j) ==
    /\ thread[j].pc = "complete"
    /\ lock = "free"
    /\ jobs' = [jobs EXCEPT ![j] = MarkCompleted(jobs[j], thread[j].res, now)]
    /\ thread' = [thread EXCEPT ![j].pc = AfterOutcome(mgr)]
    /\ UNCHANGED <<call, mgr, now, sub, registry, running, lock, dirs, files, cl>>

RunJobFail(j) ==
    /\ thread[j].pc = "except"
    /\ lock = "free"
    /\ jobs' = [jobs EXCEPT ![j] = MarkFailed(jobs[j], thread[j].err, now)]
    /\ thread' = [thread EXCEPT ![j].pc = AfterOutcome(mgr)]
    /\ UNCHANGED <<call, mgr, now, sub, registry, running, lock, dirs, files, cl>>

\* finally: with self._lock: self._running = False
RunJobFinally(j) ==
    /\ thread[j].pc = "finally"
    /\ lock = "free"
    /\ running' = FALSE
    /\ thread' = [thread EXCEPT ![j].pc = "done"]
    /\ UNCHANGED <<call, mgr, now, jobs, sub, registry, lock, dirs, files, cl>>

\* ------------------------------------- pipelines: run_ptm_pipeline, run_rescore_pipeline
WorkDir(m) == IF m = "ptm" THEN "ptm_work" ELSE "rescore"

\* steps that run a reference script with subprocess.run(..., timeout=3600)
External(m, k) ==
    \/ m = "ptm" /\ k \in {6, 7, 8}
    \/ m = "rescore" /\ k \in {5, 6}

\* the artifacts a step leaves in the work directory when it succeeds
StepOutputs(m, k) ==
    IF m = "ptm"
    THEN CASE k = 1 -> {"step1_TD_list.csv"}
           [] k = 2 -> {"step2_TD_df.csv"}
           [] k = 3 -> {"step3_ref_spectra.h5"}
           [] k = 4 -> {"step4_mamba_input.h5"}
           [] k = 5 -> {}
           [] k = 6 -> {"step6_df_score.csv"}
           [] k = 7 -> {"step7_flr_curve.csv", "step7_unique_psm.csv"}
           [] OTHER -> {"step8_phosphosites.csv"}
    ELSE CASE k = 1 -> {"msms_filtered.txt"}
           [] k = 2 -> {"msms_specid.tsv"}
           [] k = 3 -> {"rescore.h5"}
           [] k = 4 -> {}
           [] k = 5 -> {"msms_specid_with_MS2PIP_m.tsv"}
           [] OTHER -> {"mokapot.psms.txt", "mokapot.peptides.txt"}

\* the prediction steps open the h5 file of the step before them with mode
\* "a" and create the dataset Intpredict in it: <<file, dataset>>
StepAppends(m, k) ==
    IF m = "ptm" /\ k = 5 THEN {<<"step4_mamba_input.h5", "Intpredict">>}
    ELSE IF m = "rescore" /\ k = 4 THEN {<<"rescore.h5", "Intpredict">>}
    ELSE {}

\* a dataset of an h5 file of job directory d, and all that is stored of a file
Dataset(d, name, dataset) == <<d, name, dataset>>
Content(d, name) == {f \in files : f[1] = d /\ f[2] = name}

\* what the step's own code reads or writes into, and raises without
StepNeeds(m, k) ==
    IF m = "ptm"
    THEN CASE k = 1 -> {"uploads", "ptm_work"}
           [] k = 2 -> {"step1_TD_list.csv", "ptm_work"}
           [] k = 3 -> {"step1_TD_list.csv", "ptm_work"}
           [] k = 4 -> {"step2_TD_df.csv", "ptm_work"}
           [] k = 5 -> {"step4_mamba_input.h5"}
           [] k = 8 -> {"uploads"}
           [] OTHER -> {}
    ELSE CASE k = 1 -> {"uploads", "rescore"}
           [] k = 2 -> {"msms_filtered.txt", "rescore"}
           [] k = 3 -> {"msms_filtered.txt", "rescore"}
           [] k = 4 -> {"rescore.h5"}
           [] OTHER -> {}

\* external steps that check their output file after the script has exited 0
OutputChecked(m, k) == (m = "ptm" /\ k = 6) \/ (m = "rescore" /\ k = 5)

\* how a step can go: an in-process step runs through or raises (a missing
\* column, an unreadable file); a script exits 0 with or without its output,
\* exits non-zero, or is killed by the timeout; step 8 of the FLR pipeline
\* does not run its script without a phospho sites file
StepOutcomes(m, k) ==
    IF External(m, k)
    THEN {"ok", "no_output", "nonzero", "timeout"}
         \cup (IF m = "ptm" /\ k = 8 THEN {"skipped"} ELSE {})
    ELSE {"ok", "error"}

\* the error a step raises, "" when it returns
StepError(m, k, outcome, have) ==
    IF ~(StepNeeds(m, k) \subseteq have) THEN "FileNotFoundError"
    ELSE IF outcome = "error" THEN "Missing required column"
    ELSE IF outcome = "nonzero" THEN "step failed: stderr"
    ELSE IF outcome = "timeout" THEN "TimeoutExpired"
    ELSE IF outcome = "no_output" /\ OutputChecked(m, k) THEN "output not found"
    ELSE ""

\* keyword metrics the pipeline passes to the callback after step k
StepMetrics(m, k) ==
    IF m = "ptm"
    THEN CASE k = 1 -> {"total_phospho_psms", "mono_phospho_psms"}
           [] k = 2 -> {"td_candidates"}
           [] k = 7 -> {"flr_1pct_psms", "flr_5pct_psms"}
           [] k = 8 -> {"phosphosites_exported"}
           [] OTHER -> {}
    ELSE IF k = 1 THEN {"msms_total", "msms_filtered"} ELSE {}

\* run_rescore_pipeline reports nothing after its last step
HasPostCallback(m, k) == ~(m = "rescore" /\ k = RESCORE_TOTAL_STEPS)

\* result["result_files"] as the last step builds it
ResultFiles(m, outcome) ==
    IF m = "ptm"
    THEN {"step7_flr_curve.csv", "step7_unique_psm.csv"}
         \cup (IF outcome = "ok" THEN {"step8_phosphosites.csv"} ELSE {})
    ELSE IF outcome = "ok" THEN StepOutputs("rescore", RESCORE_TOTAL_STEPS) ELSE {}

JobFileNames(j) == {f[2] : f \in DirFiles(Dir(j))}

\* work.mkdir(parents=True, exist_ok=True): makes the job directory again
\* if it is gone
PipelineInit(j) ==
    /\ thread[j].pc = "pipe_init"
    /\ dirs' = dirs \cup {Dir(j)}
    /\ files' = files \cup {File(Dir(j), WorkDir(mgr))}
    /\ thread' = [thread EXCEPT ![j].pc = "cb_pre", ![j].k = 1]
    /\ UNCHANGED <<call, mgr, now, jobs, sub, registry, running, lock, cl>>

\* cb(k, total, "... ...") before step k
CbPre(j) ==
    /\ thread[j].pc = "cb_pre"
    /\ lock = "free"
    /\ jobs' = [jobs EXCEPT ![j] =
                   progress_callback(jobs[j], thread[j].k,
                                     TotalSteps(mgr), "begin", {})]
    /\ thread' = [thread EXCEPT ![j].pc = "step"]
    /\ UNCHANGED <<call, mgr, now, sub, registry, running, lock, dirs, files, cl>>

\* step k itself
RunStep(j, outcome) ==
    /\ thread[j].pc = "step"
    /\ LET m == mgr
           k == thread[j].k
           e == StepError(m, k, outcome, JobFileNames(j))
           last == k = TotalSteps(m)
       IN  /\ outcome \in StepOutcomes(m, k)
           \* a script cannot leave its output in a directory that is gone
           /\ (outcome = "ok" /\ External(m, k) /\ ~last)
                  => WorkDir(m) \in JobFileNames(j)
           /\ IF e # ""
              THEN /\ thread' = [thread EXCEPT ![j].pc = "except", ![j].err = e]
                   /\ UNCHANGED <<dirs, files>>
              ELSE /\ thread' = [thread EXCEPT
                          ![j].pc = IF HasPostCallback(m, k) THEN "cb_post"
                                    ELSE "complete",
                          ![j].res = IF last THEN ResultFiles(m, outcome) ELSE {}]
                   /\ IF outcome = "ok"
                      THEN /\ files' =
                                  (files \ UNION {Content(Dir(j), f) : f \in StepOutputs(m, k)})
                                  \cup {File(Dir(j), f) : f \in StepOutputs(m, k)}
                                  \cup {Dataset(Dir(j), p[1], p[2]) : p \in StepAppends(m, k)}
                           /\ dirs' = IF StepOutputs(m, k) # {}
                                      THEN dirs \cup {Dir(j)} ELSE dirs
                      ELSE UNCHANGED <<dirs, files>>
    /\ UNCHANGED <<call, mgr, now, jobs, sub, registry, running, lock, cl>>

\* a pipeline whose step sequence leaves a step out
NextStep_Skip(k) == k + 2

\* a pipeline that runs the same step again
NextStep_Retry(k) == k

\* the pipeline body is straight-line code: step k + 1 follows step k
NextStep(k) == k + 1

\* cb(k, total, "...", **metrics) after step k
CbPost(j) ==
    /\ thread[j].pc = "cb_post"
    /\ lock = "free"
    /\ LET m == mgr
           k == thread[j].k
       IN  /\ jobs' = [jobs EXCEPT ![j] =
                  progress_callback(jobs[j], k, TotalSteps(m), "end",
                                    StepMetrics(m, k))]
           /\ thread' = IF k < TotalSteps(m)
                        THEN [thread EXCEPT ![j].pc = "cb_pre", ![j].k = NextStep(k)]
                        ELSE [thread EXCEPT ![j].pc = "complete"]
    /\ UNCHANGED <<call, mgr, now, sub, registry, running, lock, dirs, files, cl>>

\* ------------------------------------------------------- cleanup_old_jobs
\* an age computed with its operands swapped
Expired_Swapped(rec, t) == rec.created_at - t > JOB_RETENTION_HOURS

\* age_hours > JOB_RETENTION_HOURS, with now taken before the lock
Expired(rec, t) == t - rec.created_at > JOB_RETENTION_HOURS

\* now = datetime.now(); with self._lock: the first loop collects to_remove
CleanupScan ==
    /\ cl.pc = "idle"
    /\ lock = "free"
    /\ lock' = "cleanup"
    /\ cl' = [pc |-> "remove", now |-> now,
              to_remove |-> {id \in IDs : /\ registry[id] # 0
                                          /\ Expired(jobs[registry[id]], now)}]
    /\ UNCHANGED <<call, mgr, now, jobs, sub, thread, registry, running, dirs, files>>

\* still under the lock: the second loop deletes each record and its
\* directory; then the lock is released and len(to_remove) returned
CleanupRemove ==
    /\ cl.pc = "remove"
    /\ lock' = "free"
    /\ registry' = [id \in IDs |-> IF id \in cl.to_remove THEN 0 ELSE registry[id]]
    /\ dirs' = dirs \ cl.to_remove
    /\ files' = {f \in files : f[1] \notin cl.to_remove}
    /\ cl' = NoCleanup
    /\ UNCHANGED <<call, mgr, now, jobs, sub, thread, running>>

\* the value cleanup_old_jobs returns
CleanupCount == Cardinality(cl.to_remove)

\* -------------------------------------------------------------- status read
\* get_status(job_id): takes the lock, returns self._jobs.get(job_id), changes nothing
GetStatus(id) ==
    /\ lock = "free"
    /\ UNCHANGED vars

\* --------------------------------------------------------------------- spec
Worker(j) ==
    \/ RunJobBegin(j)
    \/ PredictStart(j)
    \/ PredictBatch(j)
    \/ \E io_ok \in BOOLEAN : SaveResult(j, io_ok)
    \/ PipelineInit(j)
    \/ CbPre(j)
    \/ \E outcome \in {"ok", "error", "no_output", "nonzero", "timeout", "skipped"} :
           RunStep(j, outcome)
    \/ CbPost(j)
    \/ RunJobComplete(j)
    \/ RunJobFail(j)
    \/ RunJobFinally(j)

Submit(j) ==
    \/ \E id \in IDs, p \in CsvUploads : SubmitCreate(j, id, p)
    \/ \E id \in IDs, session \in BOOLEAN : PipelineSubmitCreate(j, id, session)
    \/ SubmitInsert(j)
    \/ SubmitStart(j)

Next ==
    \/ Tick
    \/ \E p \in CsvUploads : SubmitReject(p)
    \/ \E id \in IDs, session \in BOOLEAN : PipelineSubmitReject(id, session)
    \/ \E j \in JobSlots : Submit(j)
    \/ \E j \in JobSlots : Worker(j)
    \/ CleanupScan
    \/ CleanupRemove
    \/ \E id \in IDs : GetStatus(id)

Spec == Init /\ [][Next]_vars

\* fair scheduling: every worker thread that can run, or can run again and
\* again between the times another thread holds the lock, does run; a cleanup
\* that holds the lock finishes; a submit call in progress goes on
Fairness ==
    /\ \A j \in 1..LiveJobs : SF_vars(Worker(j))
    /\ \A j \in 1..LiveJobs : SF_vars(SubmitInsert(j)) /\ WF_vars(SubmitStart(j))
    /\ WF_vars(CleanupRemove)

\* the same program with at most LiveJobs submissions accepted
LiveNext ==
    \/ Tick
    \/ \E p \in CsvUploads : SubmitReject(p)
    \/ \E id \in IDs, session \in BOOLEAN : PipelineSubmitReject(id, session)
    \/ \E j \in 1..LiveJobs : Submit(j)
    \/ \E j \in 1..LiveJobs : Worker(j)
    \/ CleanupScan
    \/ CleanupRemove
    \/ \E id \in IDs : GetStatus(id)

LiveSpec == Init /\ [][LiveNext]_vars /\ Fairness

\* ------------------------------------------------------------------ claims
Created(j) == sub[j] # "free"
Active == {PENDING, RUNNING}
AllowedTransitions ==
    {<<PENDING, RUNNING>>, <<RUNNING, COMPLETED>>, <<RUNNING, FAILED>>}

\* C1: in every step of every manager, a job's status stays as it is or moves
\* pending -> running, running -> completed or running -> failed, and a job
\* is created pending.
C1_StatusTransitions ==
    [][\A j \in JobSlots :
          IF Created(j)
          THEN \/ jobs'[j].status = jobs[j].status
               \/ <<jobs[j].status, jobs'[j].status>> \in AllowedTransitions
          ELSE Created(j)' => jobs'[j].status = PENDING]_vars

\* C1 witness: one job went pending -> running -> completed, another
\* pending -> running -> failed, and a cleanup has run since
C1_Witness ==
    \E i, j \in JobSlots :
        /\ jobs[i].status = COMPLETED /\ thread[i].pc = "done"
        /\ jobs[j].status = FAILED /\ thread[j].pc = "done"
        /\ registry[jobs[i].job_id] = 0

\* C2: once a job's status is completed or failed, no step changes any field
\* of its record.
C2_TerminalRecordFrozen ==
    [][\A j \in JobSlots :
          (Created(j) /\ jobs[j].status \in Terminal) => jobs'[j] = jobs[j]]_vars

\* C2 witness: a pipeline worker has run its finally block after the terminal
\* write, and cleanup has removed the record from the registry
C2_Witness ==
    \E j \in JobSlots :
        /\ mgr \in PipelineManagers
        /\ jobs[j].status \in Terminal /\ thread[j].pc = "done"
        /\ sub[j] = "returned" /\ registry[jobs[j].job_id] = 0

\* C3: a batch job's processed count never exceeds total_samples, in every
\* state, and total_samples never changes after submission.
C3_ProcessedWithinTotal ==
    /\ [](\A j \in JobSlots :
             (mgr = "batch" /\ Created(j)) =>
                 jobs[j].processed <= jobs[j].total_samples)
    /\ [][\A j \in JobSlots :
             (mgr = "batch" /\ Created(j)) =>
                 jobs'[j].total_samples = jobs[j].total_samples]_vars

\* C3 witness: a running batch job of more rows than one batch, after the
\* progress callback of its last, partial batch
C3_Witness ==
    \E j \in JobSlots :
        /\ mgr = "batch" /\ jobs[j].status = RUNNING
        /\ jobs[j].total_samples = MaxRows
        /\ jobs[j].processed = MaxRows
        /\ thread[j].pc = "save"

\* C4: a cleanup never removes the registry record of a job that is pending
\* or running, nor deletes its directory.
C4_CleanupOnlyTerminal ==
    [][(cl.pc = "remove" /\ cl'.pc = "idle") =>
          \A id \in IDs :
              (registry[id] # 0 /\ jobs[registry[id]].status \in Active) =>
                  /\ registry'[id] = registry[id]
                  /\ (id \in dirs => id \in dirs')]_vars

\* C4: the state in which cleanup is about to remove a running job whose
\* worker is between two pipeline steps or batches
C4_RunningJobSelected ==
    \E id \in cl.to_remove :
        /\ cl.pc = "remove"
        /\ registry[id] # 0
        /\ jobs[registry[id]].status = RUNNING
        /\ thread[registry[id]].pc \in {"loop", "save", "step"}

\* the step in which cleanup_old_jobs deletes and returns
CleanupStep == cl.pc = "remove" /\ cl'.pc = "idle"
Age(id) == cl.now - jobs[registry[id]].created_at

Raised(j) == thread[j].err # ""

InputErrors ==
    {"Missing required columns", "invalid literal for int()",
     "Invalid character", "Residue modification missing ']'",
     "N-terminus modification missing ']-'"}

\* C7: no batch job that submit has created ends failed on an error about
\* its input; every such error is raised by submit before the job exists.
C7_ValidationBeforeCreation ==
    \A j \in JobSlots :
        (mgr = "batch" /\ Created(j)) =>
            ~(jobs[j].status = FAILED /\ jobs[j].error \in InputErrors)

\* C8: submit puts the pending record into the registry before it starts the
\* worker, get_status of the id returns that record when submit returns,
\* and from then on it keeps returning it until a cleanup removes it.
C8_RecordVisibleUntilCleanup ==
    [][\A j \in JobSlots :
          /\ (thread[j].pc = "none" /\ thread'[j].pc # "none") =>
                /\ sub[j] = "inserted"
                /\ jobs[j].status = PENDING
          /\ (sub[j] = "created" /\ sub'[j] = "inserted") =>
                get_status(jobs[j].job_id)' = j
          /\ (sub[j] \in {"inserted", "returned"}
                 /\ get_status(jobs[j].job_id) = j
                 /\ get_status(jobs[j].job_id)' # j) => CleanupStep]_vars

\* C8: submit has returned while its job is still pending and the worker has
\* not taken a step
C8_ReturnedWhilePending ==
    \E j \in JobSlots :
        /\ sub[j] = "returned" /\ thread[j].pc = "begin"
        /\ jobs[j].status = PENDING /\ get_status(jobs[j].job_id) = j

\* C9: under fair scheduling every job whose submit has returned reaches
\* completed or failed, and a worker never goes back: each pipeline step and
\* each batch is run at most once.
C9_EventuallyTerminal ==
    /\ \A j \in 1..LiveJobs :
          (sub[j] = "returned") ~> (jobs[j].status \in Terminal)
    /\ [][\A j \in 1..LiveJobs :
             /\ thread'[j].k >= thread[j].k
             /\ (thread[j].pc = "cb_post" /\ thread'[j].pc = "cb_pre") =>
                    thread'[j].k > thread[j].k
             /\ (thread[j].pc \in {"except", "finally", "done"}) =>
                    thread'[j].pc \in {"except", "finally", "done"}]_vars

\* C9 witness: an FLR job that has waited for a cleanup holding the lock and
\* then gone through all its steps to the end
C9_Witness ==
    \E j \in 1..LiveJobs :
        /\ mgr = "ptm"
        /\ thread[j].pc = "done" /\ jobs[j].status = COMPLETED
        /\ thread[j].k = PTM_TOTAL_STEPS
        /\ now = MaxClock /\ get_status(jobs[j].job_id) = j

\* C10: no two jobs of a manager have the same id, submit never stores a
\* record under an id the registry holds, and never takes a directory that
\* exists for its job.
C10_UniqueIds ==
    [][\A j \in JobSlots :
          /\ (~Created(j) /\ Created(j)') =>
                /\ jobs'[j].job_id \notin Drawn
                /\ jobs'[j].job_id \notin dirs
          /\ (sub[j] = "created" /\ sub'[j] = "inserted") =>
                registry[jobs[j].job_id] = 0]_vars

\* C10: two jobs with one id, the second record stored over the first
C10_RecordReplaced ==
    \E i, j \in JobSlots :
        /\ i # j /\ Created(i) /\ Created(j)
        /\ jobs[i].job_id = jobs[j].job_id
        /\ sub[i] = "returned" /\ sub[j] = "returned"
        /\ registry[jobs[i].job_id] = j

\* C11: in a pipeline manager no two jobs are running at once, and _running
\* is true exactly when one of its jobs is running.
C11_ConcurrencyOne ==
    mgr \in PipelineManagers =>
        /\ Cardinality({j \in JobSlots : Created(j) /\ jobs[j].status = RUNNING}) <= 1
        /\ running = (\E j \in JobSlots : Created(j) /\ jobs[j].status = RUNNING)

\* C11: two jobs of one pipeline manager, both running, each worker inside
\* a pipeline step
C11_TwoRunning ==
    /\ mgr \in PipelineManagers
    /\ \A j \in JobSlots :
          Created(j) /\ jobs[j].status = RUNNING /\ thread[j].pc = "step"

\* C12: a pipeline worker enters step k + 1 only from the callback that
\* follows a successful return of step k, its step counter only ever goes up
\* by one, so no step is entered twice, and the step index in the job
\* record never decreases and never exceeds total_steps.
C12_StepOrder ==
    [][\A j \in JobSlots :
          (mgr \in PipelineManagers /\ Created(j)) =>
              /\ jobs'[j].current_step >= jobs[j].current_step
              /\ jobs'[j].current_step <= jobs'[j].total_steps
              /\ (thread[j].pc # "step" /\ thread'[j].pc = "step") =>
                     /\ thread[j].pc = "cb_pre"
                     /\ thread'[j].k = thread[j].k
                     /\ jobs'[j].current_step = thread'[j].k
              /\ thread'[j].k # thread[j].k =>
                     /\ thread'[j].k = thread[j].k + 1
                     /\ thread[j].k = 0 \/ (thread[j].pc = "cb_post" /\ ~Raised(j))
              /\ (thread[j].pc = "step" /\ thread'[j].pc = "step") =>
                     thread'[j] = thread[j]]_vars

\* C12 witness: a rescoring job inside its last step, all earlier steps
\* reported, while the clock has moved on
C12_Witness ==
    \E j \in JobSlots :
        /\ mgr = "rescore" /\ thread[j].pc = "step"
        /\ thread[j].k = RESCORE_TOTAL_STEPS
        /\ jobs[j].current_step = RESCORE_TOTAL_STEPS
        /\ jobs[j].metrics # {} /\ now = MaxClock

C14_ExternalOutputChecked ==
    [][\A j \in JobSlots :
          (/\ mgr \in PipelineManagers /\ Created(j)
           /\ thread[j].pc = "step" /\ External(mgr, thread[j].k)
           /\ ~(mgr = "ptm" /\ thread[j].k = PTM_TOTAL_STEPS)
           /\ thread'[j].pc \in {"cb_post", "complete"}) =>
              \A f \in StepOutputs(mgr, thread[j].k) :
                  File(Dir(j), f) \in files']_vars

\* C14: a completed FLR job whose record lists the FLR curve as a result
\* file, with the score table of step 6 in its work directory and no FLR
\* curve there
C14_CompletedWithoutOutput ==
    \E j \in JobSlots :
        /\ mgr = "ptm" /\ Created(j) /\ jobs[j].status = COMPLETED
        /\ "step7_flr_curve.csv" \in jobs[j].result_files
        /\ File(Dir(j), "step6_df_score.csv") \in files
        /\ File(Dir(j), "step7_flr_curve.csv") \notin files

\* ------------------------------------- input files of the pipelines
\* (ptm_pipeline.py steps 1 and 3, rescore_pipeline.py steps 1 and 3)
\* the raw files a per-file parameter list can name
RawFiles == {"run1", "run2"}

\* file names: <<stem, suffix>>
SearchResults == {<<"msms", ".txt">>, <<"msms_b", ".txt">>}
UploadNames == SearchResults \cup {<<r, ".mgf">> : r \in RawFiles}

\* param_map = {fp["raw_file"]: fp for fp in file_params}, reduced to the
\* search_result of each raw file
ParamMaps == UNION {[S -> SearchResults] : S \in SUBSET RawFiles}

\* msms_files = set(fp["search_result"] for fp in param_map.values())
msms_files(param_map) == {param_map[r] : r \in DOMAIN param_map}

\* the loop that reads the search results: a file that does not exist is
\* passed over
dfs(param_map, uploads) == {f \in msms_files(param_map) : f \in uploads}

\* uploads.glob(f"{raw_file}.mgf*")
mgf_candidates(raw_file, uploads) ==
    {f \in uploads : f[1] = raw_file /\ f[2] \in {".mgf", ".mgf.gz"}}

\* the loop that parses the MGF files: a raw file without candidates is
\* passed over (`continue`)
mgf_scans(param_map, uploads) ==
    {r \in DOMAIN param_map : mgf_candidates(r, uploads) # {}}

\* a pipeline about to run step 1 on a job directory's uploads
InputInit ==
    /\ mgr \in PipelineManagers
    /\ Idle
    /\ \E pm \in ParamMaps, up \in SUBSET UploadNames :
          call = [fn |-> "pipeline_inputs", param_map |-> pm, uploads |-> up,
                  pc |-> "step1", read |-> {}, scans |-> {}, err |-> ""]

svc == <<mgr, now, jobs, sub, thread, registry, running, lock, dirs, files, cl>>

\* _step01_generate_td_list / _step01_filter: read the search results named
\* in param_map; outcome "error" is a table without a required column
Step01(outcome) ==
    /\ call.fn = "pipeline_inputs" /\ call.pc = "step1"
    /\ LET d == dfs(call.param_map, call.uploads)
       IN  call' = IF d = {}
                   THEN [call EXCEPT !.pc = "raised",
                                     !.err = "No msms.txt files found in uploads"]
                   ELSE IF outcome = "error"
                   THEN [call EXCEPT !.pc = "raised", !.read = d,
                                     !.err = "Missing required column"]
                   ELSE [call EXCEPT !.pc = "step3", !.read = d]
    /\ UNCHANGED svc

\* _step03_build_ref_h5 / _step03_mgf_to_h5: parse the MGF file of each raw
\* file and match the rows against it; a row whose raw file has no scans
\* gets an empty spectrum
Step03(outcome) ==
    /\ call.fn = "pipeline_inputs" /\ call.pc = "step3"
    /\ call' = IF outcome = "error"
               THEN [call EXCEPT !.pc = "raised", !.err = "Missing required column"]
               ELSE [call EXCEPT !.pc = "returned",
                                 !.scans = mgf_scans(call.param_map, call.uploads)]
    /\ UNCHANGED svc

InputNext == \E outcome \in {"ok", "error"} : Step01(outcome) \/ Step03(outcome)

InputSpec == InputInit /\ [][InputNext]_vars

\* C15: steps 1 and 3 of a pipeline return only when the search-result file
\* and an MGF file of every raw file named in the per-file parameters are
\* among the uploads; otherwise the step has raised with a diagnostic.
C15_MissingInputAborts ==
    /\ call.pc \in {"step3", "returned"} =>
           msms_files(call.param_map) \subseteq call.uploads
    /\ call.pc = "returned" =>
           \A r \in DOMAIN call.param_map :
               mgf_candidates(r, call.uploads) # {}
    /\ call.pc = "raised" => call.err # ""

\* C15: step 3 has returned for two raw files, with the search result of
\* one of them and the MGF file of the other absent from the uploads
C15_SilentlySkipped ==
    /\ call.pc = "returned"
    /\ DOMAIN call.param_map = RawFiles
    /\ Cardinality(call.read) = 1 /\ Cardinality(msms_files(call.param_map)) = 2
    /\ Cardinality(call.scans) = 1

\* ------------------------------ FLR export cutoff (ptm_pipeline.py step 8)
\* longest FLR curve read
MaxCurve == 2

\* a table cell: <<n>> for a number, <<>> for a blank cell (NaN)
NaN == <<>>
Num(n) == <<n>>

\* estimated FLR and target FLR in percent, cutoffs in score units
FlrValues == {Num(0), Num(1), Num(5), Num(6), NaN}
CutoffValues == {-1, 0, 2}
TargetFlrs == {1, 5}
FlrRows == [esti_FLR : FlrValues, cutoff : CutoffValues]
FlrCurves == UNION {[1..n -> FlrRows] : n \in 0..MaxCurve}

\* x <= y on a column cell: a comparison with NaN is False
CellLe(x, y) == x # NaN /\ x[1] <= y

\* a selection that leaves out the rows at the threshold itself
at_target_Strict(flr_df, target_flr) ==
    SelectSeq(flr_df, LAMBDA row : row.esti_FLR # NaN /\ row.esti_FLR[1] < target_flr)

\* flr_df.loc[flr_df["esti_FLR"] <= target_flr]
at_target(flr_df, target_flr) ==
    SelectSeq(flr_df, LAMBDA row : CellLe(row.esti_FLR, target_flr))

\* Series.min() of a column without blanks
RECURSIVE SeriesMin(_)
SeriesMin(s) ==
    IF Len(s) = 1 THEN s[1]
    ELSE Min(s[1], SeriesMin(Tail(s)))

Column(df, name) == [i \in 1..Len(df) |-> df[i][name]]

\* delta_cutoff as _step08_export_phosphosites computes it
delta_cutoff(exists, flr_df, target_flr) ==
    IF exists /\ Len(at_target(flr_df, target_flr)) > 0
    THEN SeriesMin(Column(at_target(flr_df, target_flr), "cutoff"))
    ELSE 0

\* step 8 about to compute the cutoff, with or without an FLR curve file
CutoffInit ==
    /\ mgr = "ptm"
    /\ Idle
    /\ \E e \in BOOLEAN, df \in FlrCurves, t \in TargetFlrs :
          /\ ~e => df = <<>>
          /\ call = [fn |-> "delta_cutoff", exists |-> e, flr_df |-> df,
                     target_flr |-> t, pc |-> "call", ret |-> 0]

ComputeCutoff ==
    /\ call.fn = "delta_cutoff" /\ call.pc = "call"
    /\ call' = [call EXCEPT
                   !.pc = "done",
                   !.ret = delta_cutoff(call.exists, call.flr_df, call.target_flr)]
    /\ UNCHANGED svc

CutoffSpec == CutoffInit /\ [][ComputeCutoff]_vars

\* the rows of the curve whose estimated FLR is at most the target
Meets(df, t) ==
    {i \in 1..Len(df) : df[i].esti_FLR # NaN /\ df[i].esti_FLR[1] <= t}

\* C16: the cutoff passed to the export is the least cutoff among the rows
\* of the FLR curve whose estimated FLR is at most the target, and zero when
\* the curve file is absent or no row meets the target.
C16_ExportCutoff ==
    call.pc = "done" =>
        LET Q == Meets(call.flr_df, call.target_flr)
        IN  IF ~call.exists \/ Q = {}
            THEN call.ret = 0
            ELSE /\ \E i \in Q : call.ret = call.flr_df[i].cutoff
                 /\ \A i \in Q : call.ret <= call.flr_df[i].cutoff

\* C16 witness: a curve with two rows at or under the target, the least
\* cutoff in the second and negative
C16_Witness ==
    /\ call.pc = "done" /\ call.exists
    /\ Len(call.flr_df) = 2
    /\ Meets(call.flr_df, call.target_flr) = {1, 2}
    /\ call.flr_df[1].esti_FLR = Num(call.target_flr)
    /\ call.flr_df[2].cutoff < call.flr_df[1].cutoff
    /\ call.ret = -1

\* ------------------------------ scan numbers of MGF titles (mgf_parser.py)
\* a title is a sequence of characters, put together from at most
\* MaxTitleParts pieces
MaxTitleParts == 5

TitleParts ==
    { <<"s", "c", "a", "n", "=">>, <<"s", "c", "a", "n">>,
      <<"S", "c", "a", "n", "s">>, <<"i", "n", "d", "e", "x", "=">>,
      <<".", "7", ".", "7", ".", "2">>,
      <<"5">>, <<"0">>, <<" ">>, <<":">> }

RECURSIVE Flatten(_)
Flatten(parts) ==
    IF parts = <<>> THEN <<>> ELSE Head(parts) \o Flatten(Tail(parts))

Digits == {"0", "1", "2", "3", "4", "5", "6", "7", "8", "9"}
Whitespace == {" "}

\* line = line.strip(); title = line[6:]: a title does not end in whitespace
Titles ==
    {t \in {Flatten(p) : p \in UNION {[1..n -> TitleParts] : n \in 0..MaxTitleParts}} :
        t = <<>> \/ t[Len(t)] \notin Whitespace}

\* the character at position i, "" past the end
At(t, i) == IF i \in 1..Len(t) THEN t[i] ELSE ""

\* re.I on the letters of "scans"
Lower(c) ==
    CASE c = "S" -> "s" [] c = "C" -> "c" [] c = "A" -> "a" [] c = "N" -> "n"
      [] OTHER -> c

\* the literal lit at position i
LitAt(t, i, lit, ignorecase) ==
    \A k \in 1..Len(lit) :
        (IF ignorecase THEN Lower(At(t, i + k - 1)) ELSE At(t, i + k - 1)) = lit[k]

\* \d+ and [:\s]+ are greedy; what follows them in every pattern is not in
\* their class, so only the longest run can match
RECURSIVE Run(_, _, _)
Run(t, i, class) ==
    IF At(t, i) \in class THEN 1 + Run(t, i + 1, class) ELSE 0

\* a match: <<start, length>> of group 1; <<>> is no match
NoMatch == <<>>

\* scan=(\d+) / index=(\d+)
KeyAt(t, i, key) ==
    IF LitAt(t, i, key, FALSE) /\ Run(t, i + Len(key), Digits) >= 1
    THEN <<i + Len(key), Run(t, i + Len(key), Digits)>>
    ELSE NoMatch

\* \.(\d+)\.\d+\.\d+\s
DottedAt(t, i) ==
    LET a == Run(t, i + 1, Digits)
        p2 == i + 1 + a
        b == Run(t, p2 + 1, Digits)
        p3 == p2 + 1 + b
        c == Run(t, p3 + 1, Digits)
        p4 == p3 + 1 + c
    IN  IF /\ At(t, i) = "." /\ a >= 1
           /\ At(t, p2) = "." /\ b >= 1
           /\ At(t, p3) = "." /\ c >= 1
           /\ At(t, p4) \in Whitespace
        THEN <<i + 1, a>>
        ELSE NoMatch

\* scans?[:\s]+(\d+) with re.I
ScansAt(t, i) ==
    LET p == IF Lower(At(t, i + 4)) = "s" THEN i + 5 ELSE i + 4
        sep == Run(t, p, Whitespace \cup {":"})
    IN  IF /\ LitAt(t, i, <<"s", "c", "a", "n">>, TRUE)
           /\ sep >= 1 /\ Run(t, p + sep, Digits) >= 1
        THEN <<p + sep, Run(t, p + sep, Digits)>>
        ELSE NoMatch

PatternAt(pattern, t, i) ==
    CASE pattern = "scan=" -> KeyAt(t, i, <<"s", "c", "a", "n", "=">>)
      [] pattern = "dotted" -> DottedAt(t, i)
      [] pattern = "scans" -> ScansAt(t, i)
      [] pattern = "index=" -> KeyAt(t, i, <<"i", "n", "d", "e", "x", "=">>)

\* pattern.search(title): the leftmost match; m.group(1), or NoMatch
search(pattern, title) ==
    LET hits == {i \in 1..Len(title) : PatternAt(pattern, title, i) # NoMatch}
    IN  IF hits = {} THEN NoMatch
        ELSE LET i == CHOOSE h \in hits : \A g \in hits : h <= g
                 m == PatternAt(pattern, title, i)
             IN  SubSeq(title, m[1], m[1] + m[2] - 1)

DigitValue(c) ==
    CASE c = "0" -> 0 [] c = "1" -> 1 [] c = "2" -> 2 [] c = "3" -> 3
      [] c = "4" -> 4 [] c = "5" -> 5 [] c = "6" -> 6 [] c = "7" -> 7
      [] c = "8" -> 8 [] c = "9" -> 9

\* int(m.group(1))
RECURSIVE int(_)
int(ds) ==
    IF ds = <<>> THEN 0
    ELSE 10 * int(SubSeq(ds, 1, Len(ds) - 1)) + DigitValue(ds[Len(ds)])

\* None
None == <<>>

\* a pattern list that looks for index= first
SCAN_PATTERNS_IndexFirst == <<"index=", "scan=", "dotted", "scans">>

SCAN_PATTERNS == <<"scan=", "dotted", "scans", "index=">>

\* for pattern in _SCAN_PATTERNS: ... return int(m.group(1)); return None
RECURSIVE ExtractLoop(_, _)
ExtractLoop(patterns, title) ==
    IF patterns = <<>> THEN None
    ELSE IF search(Head(patterns), title) # NoMatch
    THEN Num(int(search(Head(patterns), title)))
    ELSE ExtractLoop(Tail(patterns), title)

extract_scan(title) == ExtractLoop(SCAN_PATTERNS, title)

ScanInit ==
    /\ mgr = "rescore"
    /\ Idle
    /\ \E t \in Titles :
          call = [fn |-> "extract_scan", title |-> t, pc |-> "call", ret |-> None]

ExtractScan ==
    /\ call.fn = "extract_scan" /\ call.pc = "call"
    /\ call' = [call EXCEPT !.pc = "done", !.ret = extract_scan(call.title)]
    /\ UNCHANGED svc

ScanSpec == ScanInit /\ [][ExtractScan]_vars

Captured(pattern) == search(pattern, call.title)

\* C17: the scan of a title is the number captured by scan=<digits> when
\* that matches; else by the dotted pattern when that matches; else by
\* scan/scans when that matches; else by index=<digits> when that matches;
\* and it is null exactly when none of the four matches.
C17_FirstMatchInOrder ==
    call.pc = "done" =>
        /\ call.ret =
              IF Captured("scan=") # NoMatch THEN Num(int(Captured("scan=")))
              ELSE IF Captured("dotted") # NoMatch THEN Num(int(Captured("dotted")))
              ELSE IF Captured("scans") # NoMatch THEN Num(int(Captured("scans")))
              ELSE IF Captured("index=") # NoMatch THEN Num(int(Captured("index=")))
              ELSE None
        /\ call.ret = None <=>
              \A p \in {"scan=", "dotted", "scans", "index="} : Captured(p) = NoMatch

\* C17 witness: a title in which scan= and the dotted pattern both match
\* and capture different numbers; the scan is the one after scan=
C17_Witness ==
    /\ call.pc = "done"
    /\ Captured("scan=") # NoMatch /\ Captured("dotted") # NoMatch
    /\ int(Captured("scan=")) # int(Captured("dotted"))
    /\ call.ret = Num(int(Captured("scan=")))

\* ------------------------------------------- MGF blocks (mgf_parser.py)
\* most lines between BEGIN IONS and END IONS
MaxPeakLines == 3

\* a line is the sequence of its whitespace-separated tokens
BEGIN_IONS == <<"BEGIN", "IONS">>
END_IONS == <<"END", "IONS">>
TitleLine == <<"TITLE=scan=5">>
PepmassLine == <<"PEPMASS=500">>
ChargeLine == <<"CHARGE=2+">>

BlockLines ==
    { <<"100", "10">>, <<"200", "30">>, <<"300", "5">>,
      <<"100", "abc">>, <<"abc", "10">>, <<"200">>, <<>>,
      <<"200", "-5">>, <<"300", "0">>, <<"100", "nan">>, <<"100", "10", "7">>,
      TitleLine, PepmassLine, ChargeLine }

\* one block, with or without a line in front of it
MgfFiles ==
    {pre \o <<BEGIN_IONS>> \o body \o <<END_IONS>> :
        pre \in {<<>>, << <<"100", "10">> >>},
        body \in UNION {[1..n -> BlockLines] : n \in 0..MaxPeakLines}}

\* float(token): the tokens it accepts and their values; it raises
\* ValueError on any other
FloatValue ==
    [tok \in {"100", "200", "300", "500", "10", "30", "5", "7", "0", "-5", "nan"} |->
        CASE tok = "100" -> Num(100) [] tok = "200" -> Num(200)
          [] tok = "300" -> Num(300) [] tok = "500" -> Num(500)
          [] tok = "10" -> Num(10) [] tok = "30" -> Num(30)
          [] tok = "5" -> Num(5) [] tok = "7" -> Num(7)
          [] tok = "0" -> Num(0) [] tok = "-5" -> Num(-5)
          [] tok = "nan" -> NaN]

IsFloat(tok) == tok \in DOMAIN FloatValue

\* an array entry: its value and the number of the line it was read from
Entry(v, ln) == [v |-> v, ln |-> ln]

\* int_arr.max(): NaN when any entry is NaN
ArrayMax(arr) ==
    IF \E i \in 1..Len(arr) : arr[i].v = NaN THEN NaN
    ELSE Num(CHOOSE x \in {arr[i].v[1] : i \in 1..Len(arr)} :
                 \A i \in 1..Len(arr) : arr[i].v[1] <= x)

\* max_int = int_arr.max() if int_arr.size > 0 else 1.0
max_int(arr) == IF Len(arr) > 0 THEN ArrayMax(arr) ELSE Num(1)

\* a quotient n / d, kept as the pair; an array that was not divided holds
\* its raw values
Quot(n, d) == <<n, d>>

\* if max_int > 0: int_arr = int_arr / max_int
Normalize(arr) ==
    LET m == max_int(arr)
    IN  IF m # NaN /\ m[1] > 0
        THEN [i \in 1..Len(arr) |->
                 [arr[i] EXCEPT !.v = Quot(arr[i].v[1], m[1])]]
        ELSE arr

MgfInit ==
    /\ mgr = "rescore"
    /\ Idle
    /\ \E f \in MgfFiles :
          call = [fn |-> "parse_mgf", lines |-> f, i |-> 1, pc |-> "loop",
                  in_ions |-> FALSE, title |-> <<>>, pepmass |-> 0,
                  charge |-> 0, mzs |-> <<>>, ints |-> <<>>, spectra |-> <<>>]

Reading == call.fn = "parse_mgf" /\ call.pc = "loop" /\ call.i <= Len(call.lines)
Line == call.lines[call.i]

\* if line == "BEGIN IONS"
BeginIons ==
    /\ Reading /\ Line = BEGIN_IONS
    /\ call' = [call EXCEPT !.i = @ + 1, !.in_ions = TRUE, !.title = <<>>,
                            !.pepmass = 0, !.charge = 0,
                            !.mzs = <<>>, !.ints = <<>>]
    /\ UNCHANGED svc

\* if line == "END IONS"
EndIons ==
    /\ Reading /\ Line = END_IONS
    /\ call' = [call EXCEPT
                   !.i = @ + 1, !.in_ions = FALSE,
                   !.spectra = Append(@,
                       [title |-> call.title, scan |-> extract_scan(call.title),
                        pepmass |-> call.pepmass, charge |-> call.charge,
                        mz_array |-> call.mzs,
                        int_array |-> Normalize(call.ints)])]
    /\ UNCHANGED svc

\* if not in_ions: continue
OutsideBlock ==
    /\ Reading /\ Line \notin {BEGIN_IONS, END_IONS} /\ ~call.in_ions
    /\ call' = [call EXCEPT !.i = @ + 1]
    /\ UNCHANGED svc

HeaderLines == {TitleLine, PepmassLine, ChargeLine}

\* the header fields: TITLE= sets the title, PEPMASS= the precursor m/z,
\* CHARGE= the charge
HeaderField ==
    /\ Reading /\ call.in_ions /\ Line \in HeaderLines
    /\ call' = [call EXCEPT
                   !.i = @ + 1,
                   !.title = IF Line = TitleLine
                             THEN <<"s", "c", "a", "n", "=", "5">> ELSE @,
                   !.pepmass = IF Line = PepmassLine THEN 500 ELSE @,
                   !.charge = IF Line = ChargeLine THEN 2 ELSE @]
    /\ UNCHANGED svc

\* parts = line.split(); if len(parts) >= 2: try: mzs.append(float(parts[0]));
\* ints.append(float(parts[1])); except ValueError: continue
PeakAppend(c, parts, ln) ==
    IF Len(parts) >= 2
    THEN IF ~IsFloat(parts[1]) THEN c
         ELSE IF ~IsFloat(parts[2])
         THEN [c EXCEPT !.mzs = Append(@, Entry(FloatValue[parts[1]], ln))]
         ELSE [c EXCEPT !.mzs = Append(@, Entry(FloatValue[parts[1]], ln)),
                        !.ints = Append(@, Entry(FloatValue[parts[2]], ln))]
    ELSE c

PeakLine ==
    /\ Reading /\ call.in_ions
    /\ Line \notin {BEGIN_IONS, END_IONS} \cup HeaderLines
    /\ call' = [PeakAppend(call, Line, call.i) EXCEPT !.i = @ + 1]
    /\ UNCHANGED svc

\* return spectra
ReturnSpectra ==
    /\ call.fn = "parse_mgf" /\ call.pc = "loop" /\ call.i > Len(call.lines)
    /\ call' = [call EXCEPT !.pc = "done"]
    /\ UNCHANGED svc

MgfNext ==
    \/ BeginIons \/ EndIons \/ OutsideBlock \/ HeaderField \/ PeakLine
    \/ ReturnSpectra

MgfSpec == MgfInit /\ [][MgfNext]_vars

\* C18: in every parsed spectrum the m/z array and the intensity array have
\* the same length, and entry i of both was read from the same line (so a
\* line with a malformed token contributes to neither).
C18_ParallelArrays ==
    call.fn = "parse_mgf" =>
        \A s \in 1..Len(call.spectra) :
            LET sp == call.spectra[s]
            IN  /\ Len(sp.mz_array) = Len(sp.int_array)
                /\ \A i \in 1..Len(sp.mz_array) :
                       sp.mz_array[i].ln = sp.int_array[i].ln

\* C18: a parsed spectrum whose m/z array is longer than its intensity array
C18_ArraysOutOfStep ==
    /\ call.fn = "parse_mgf" /\ call.pc = "done"
    /\ \E s \in 1..Len(call.spectra) :
          /\ Len(call.spectra[s].int_array) >= 1
          /\ Len(call.spectra[s].mz_array) > Len(call.spectra[s].int_array)

\* the raw intensity an entry was read from
RawOf(e) == FloatValue[call.lines[e.ln][2]]

\* a stored intensity as numerator and denominator
AsQuot(v) == IF Len(v) = 2 THEN v ELSE Quot(v[1], 1)

\* the lines of the block that are peaks: two or more tokens, the first two
\* numeric
PeaksOfBlock ==
    {ln \in 1..Len(call.lines) :
        /\ \E b \in 1..(ln - 1) : call.lines[b] = BEGIN_IONS
        /\ Len(call.lines[ln]) >= 2
        /\ IsFloat(call.lines[ln][1]) /\ IsFloat(call.lines[ln][2])}

\* C19: in every parsed spectrum each intensity is a number in [0,1] and is
\* the raw intensity of its line divided by the greatest raw intensity of
\* the block; a block without peaks gives an empty m/z array and an empty
\* intensity array.
C19_NormalizedIntensities ==
    call.fn = "parse_mgf" =>
        \A s \in 1..Len(call.spectra) :
            LET sp == call.spectra[s]
                raws == {RawOf(sp.int_array[i]) : i \in 1..Len(sp.int_array)}
            IN  /\ \A i \in 1..Len(sp.int_array) :
                       LET e == sp.int_array[i]
                       IN  /\ e.v # NaN /\ NaN \notin raws
                           /\ 0 <= AsQuot(e.v)[1]
                           /\ AsQuot(e.v)[1] <= AsQuot(e.v)[2]
                           /\ \E m \in raws :
                                 /\ \A r \in raws : r[1] <= m[1]
                                 /\ AsQuot(e.v)[1] * m[1] = RawOf(e)[1] * AsQuot(e.v)[2]
                /\ PeaksOfBlock = {} => sp.mz_array = <<>> /\ sp.int_array = <<>>

\* C19: a parsed spectrum with as many intensities as m/z values, one of
\* them 1 and another below zero
C19_NegativeIntensity ==
    /\ call.fn = "parse_mgf" /\ call.pc = "done"
    /\ \E s \in 1..Len(call.spectra) :
          LET sp == call.spectra[s]
          IN  /\ Len(sp.mz_array) = Len(sp.int_array)
              /\ \E i, j \in 1..Len(sp.int_array) :
                    /\ sp.int_array[i].v = Quot(10, 10)
                    /\ sp.int_array[j].v = Quot(-5, 10)

\* C19: the block of the example, peaks (100,10), (200,30), (300,5), parsed
\* to 10/30, 30/30 and 5/30
C19_Example ==
    /\ call.fn = "parse_mgf" /\ call.pc = "done" /\ Len(call.spectra) = 1
    /\ Len(call.spectra[1].mz_array) = 3 /\ Len(call.spectra[1].int_array) = 3
    /\ [i \in 1..3 |-> call.spectra[1].mz_array[i].v] = <<Num(100), Num(200), Num(300)>>
    /\ [i \in 1..3 |-> call.spectra[1].int_array[i].v]
           = <<Quot(10, 30), Quot(30, 30), Quot(5, 30)>>

\* ------------------------------ theoretical m/z of b and y ions (ion_labels.py)
\* most residues of a peptide
MaxPeptide == 4

\* masses in millionths of a dalton
AA_MASS ==
    [aa \in {"G", "A", "V", "L", "I", "P", "F", "W", "M", "S", "T", "C", "Y", "H",
             "D", "E", "N", "Q", "K", "R"} |->
        CASE aa = "G" -> 57021460 [] aa = "A" -> 71037110 [] aa = "V" -> 99068410
          [] aa = "L" -> 113084060 [] aa = "I" -> 113084060 [] aa = "P" -> 97052760
          [] aa = "F" -> 147068410 [] aa = "W" -> 186079310 [] aa = "M" -> 131040490
          [] aa = "S" -> 87032030 [] aa = "T" -> 101047680 [] aa = "C" -> 103009190
          [] aa = "Y" -> 163063330 [] aa = "H" -> 137058910 [] aa = "D" -> 115026940
          [] aa = "E" -> 129042590 [] aa = "N" -> 114042930 [] aa = "Q" -> 128058580
          [] aa = "K" -> 128094960 [] aa = "R" -> 156101110]

Oxidation == <<"O", "x", "i", "d", "a", "t", "i", "o", "n">>
Acetyl == <<"A", "c", "e", "t", "y", "l">>

\* the entries of MOD_MASS the peptides below can name
MOD_MASS == (Oxidation :> 15994910) @@ (Acetyl :> 42010570)

PROTON_MASS == 1007276
WATER_MASS == 18010560

\* dict.get(key, 0.0)
Get(d, key) == IF key \in DOMAIN d THEN d[key] ELSE 0

\* peptides: an optional N-terminal acetyl group and up to MaxPeptide
\* residues, one of which may be an oxidised methionine
ResidueTexts ==
    {<<"A">>, <<"C">>, <<"D">>, <<"K">>, <<"M", "[">> \o Oxidation \o <<"]">>}
NTermTexts == {<<>>, <<"[">> \o Acetyl \o <<"]", "-">>}
Peptides ==
    {nt \o Flatten(rs) :
        nt \in NTermTexts,
        rs \in UNION {[1..n -> ResidueTexts] : n \in 1..MaxPeptide}}

\* tok.startswith("[") and tok.endswith("]-")
IsNTermToken(tok) ==
    /\ Len(tok) >= 3 /\ tok[1] = "["
    /\ tok[Len(tok) - 1] = "]" /\ tok[Len(tok)] = "-"

\* one pass of the loop of _residue_masses
RECURSIVE residue_masses(_)
residue_masses(tokens) ==
    IF tokens = <<>> THEN <<>>
    ELSE LET tok == Head(tokens)
             rest == residue_masses(Tail(tokens))
         IN  IF tok \in {<<"[", "]", "-">>, <<"-", "[", "]">>} THEN rest
             ELSE IF IsNTermToken(tok)
             THEN <<Get(MOD_MASS, SubSeq(tok, 2, Len(tok) - 2))>> \o rest
             ELSE <<Get(AA_MASS, tok[1])
                    + (IF \E k \in 1..Len(tok) : tok[k] = "["
                       THEN Get(MOD_MASS, SubSeq(tok, 3, Len(tok) - 1))
                       ELSE 0)>> \o rest

\* prefix[i]: the sum of the first i entries
RECURSIVE prefix(_, _)
prefix(masses, i) == IF i = 0 THEN 0 ELSE prefix(masses, i - 1) + masses[i]

\* an ion label: b{i} is <<"b", i, 1>> and b{i}^2 is <<"b", i, 2>>
Label(series, i, z) == <<series, i, z>>

\* the mass that y{i} is computed from
y_mass(masses, i) == prefix(masses, Len(masses)) - prefix(masses, i) + WATER_MASS

\* compute_theoretical_mz on a sequence that tokenizes
compute_theoretical_mz(sequence, charge) ==
    LET tokens == tokenize_peptide(sequence).tokens
        masses == residue_masses(tokens)
        n == Len(masses)
        nterm_offset ==
            IF tokens # <<>> /\ IsNTermToken(tokens[1])
            THEN Get(MOD_MASS, SubSeq(tokens[1], 2, Len(tokens[1]) - 2))
            ELSE 0
    IN  [l \in {Label(s, i, z) : s \in {"b", "y"}, i \in 1..(n - 1), z \in {1, 2}} |->
            IF l[1] = "b"
            THEN Quot(prefix(masses, l[2]) + nterm_offset + l[3] * PROTON_MASS, l[3])
            ELSE Quot(y_mass(masses, l[2]) + l[3] * PROTON_MASS, l[3])]

MzInit ==
    /\ mgr = "predict"
    /\ Idle
    /\ \E seq \in Peptides, z \in {1, 2} :
          call = [fn |-> "compute_theoretical_mz", sequence |-> seq,
                  charge |-> z, pc |-> "call", ret |-> <<>>]

ComputeMz ==
    /\ call.fn = "compute_theoretical_mz" /\ call.pc = "call"
    /\ tokenize_peptide(call.sequence).ok
    /\ call' = [call EXCEPT
                   !.pc = "done",
                   !.ret = compute_theoretical_mz(call.sequence, call.charge)]
    /\ UNCHANGED svc

MzSpec == MzInit /\ [][ComputeMz]_vars

\* the residues of the called sequence with their masses, the terminal
\* group left out, and the mass of that group
Residues ==
    SelectSeq(tokenize_peptide(call.sequence).tokens, LAMBDA tok : ~IsNTermToken(tok))
ResidueMass(tok) ==
    Get(AA_MASS, tok[1])
    + (IF Len(tok) > 1 THEN Get(MOD_MASS, SubSeq(tok, 3, Len(tok) - 1)) ELSE 0)
NTermMass == IF call.sequence[1] = "[" THEN MOD_MASS[Acetyl] ELSE 0

RECURSIVE MassOf(_)
MassOf(toks) == IF toks = <<>> THEN 0 ELSE ResidueMass(Head(toks)) + MassOf(Tail(toks))

\* C20: b{i} is the mass of the first i residues (with the N-terminal group)
\* plus a proton, and y{i} the mass of the last i residues plus water plus a
\* proton; for "ACDK" at charge 1, b1 = mass(A) + proton and
\* y1 = mass(K) + water + proton.
C20_IonLabels ==
    (call.fn = "compute_theoretical_mz" /\ call.pc = "done") =>
        LET r == Residues
            n == Len(r)
        IN  /\ \A i \in 1..(n - 1) :
                  /\ Label("b", i, 1) \in DOMAIN call.ret
                  /\ Label("y", i, 1) \in DOMAIN call.ret
                  /\ call.ret[Label("b", i, 1)] =
                         Quot(NTermMass + MassOf(SubSeq(r, 1, i)) + PROTON_MASS, 1)
                  /\ call.ret[Label("y", i, 1)] =
                         Quot(MassOf(SubSeq(r, n - i + 1, n)) + WATER_MASS + PROTON_MASS, 1)
            /\ (call.sequence = SeqPlain /\ call.charge = 1) =>
                  /\ call.ret[Label("b", 1, 1)] = Quot(AA_MASS["A"] + PROTON_MASS, 1)
                  /\ call.ret[Label("y", 1, 1)] =
                         Quot(AA_MASS["K"] + WATER_MASS + PROTON_MASS, 1)

\* C20: "ACDK" at charge 1 with y1 computed from C, D and K and y3 from K
C20_ComplementaryY ==
    /\ call.fn = "compute_theoretical_mz" /\ call.pc = "done"
    /\ call.sequence = SeqPlain /\ call.charge = 1
    /\ call.ret[Label("b", 1, 1)] = Quot(AA_MASS["A"] + PROTON_MASS, 1)
    /\ call.ret[Label("y", 1, 1)] =
           Quot(AA_MASS["C"] + AA_MASS["D"] + AA_MASS["K"] + WATER_MASS + PROTON_MASS, 1)
    /\ call.ret[Label("y", 3, 1)] = Quot(AA_MASS["K"] + WATER_MASS + PROTON_MASS, 1)

\* C21: for a sequence of n residues with an N-terminal modification token
\* the map has the labels b{i}, b{i}^2, y{i}, y{i}^2 for exactly i = 1..n-1,
\* and b{i} is the mass of the first i residues plus the mass of the
\* N-terminal modification, once, plus the protons.
C21_NTermOffsetOnce ==
    (/\ call.fn = "compute_theoretical_mz" /\ call.pc = "done"
     /\ call.sequence[1] = "[") =>
        LET r == Residues
            n == Len(r)
        IN  /\ DOMAIN call.ret =
                   {Label(s, i, z) : s \in {"b", "y"}, i \in 1..(n - 1), z \in {1, 2}}
            /\ \A i \in 1..(n - 1), z \in {1, 2} :
                   Label("b", i, z) \in DOMAIN call.ret =>
                       call.ret[Label("b", i, z)] =
                           Quot(NTermMass + MassOf(SubSeq(r, 1, i)) + z * PROTON_MASS, z)

\* C21: acetylated "ACDK": four residues, a label b4 in the map, and b1
\* equal to twice the acetyl mass plus a proton, with no residue in it
C21_OffsetTwice ==
    /\ call.fn = "compute_theoretical_mz" /\ call.pc = "done"
    /\ call.sequence = <<"[">> \o Acetyl \o <<"]", "-">> \o SeqPlain
    /\ Label("b", 4, 1) \in DOMAIN call.ret
    /\ call.ret[Label("b", 1, 1)] = Quot(2 * MOD_MASS[Acetyl] + PROTON_MASS, 1)

-----------------------------------------------------------------------------
\* The annotation matrix of ion_labels.py: _build_annotation_matrix, run once
\* when the module is imported.  A label is the string the code formats, as
\* a sequence of characters; "" is the empty sequence.

ION_ROWS == 31
ION_COLS == 29

DigitChars == <<"0", "1", "2", "3", "4", "5", "6", "7", "8", "9">>

\* f"{n}" for an integer n >= 0
RECURSIVE Decimal(_)
Decimal(n) ==
    IF n < 10 THEN <<DigitChars[n + 1]>>
    ELSE Decimal(n \div 10) \o <<DigitChars[(n % 10) + 1]>>

EmptyLabel == <<>>

\* rows 0..3: f"b{i + 1}", f"b{i + 1}^2", f"y{i + 1}", f"y{i + 1}^2"
SeriesLabel(row, i) ==
    <<IF row < 2 THEN "b" ELSE "y">> \o Decimal(i + 1)
        \o (IF row % 2 = 1 THEN <<"^", "2">> ELSE <<>>)

m_start(col) == col + 2
m_end_Short(row, col) == m_start(col) + (row - 3)
m_end(row, col) == m_start(col) + (row - 2)
InternalLabel(row, col) ==
    <<"m">> \o Decimal(m_start(col)) \o <<":">> \o Decimal(m_end(row, col))

ImmoniumLabels == <<"H", "R", "F", "Y">>
ImmoniumLabel(row) == <<"I", ImmoniumLabels[row + 1]>>

BlankMatrix == [row \in 0..(ION_ROWS - 1) |-> [col \in 0..(ION_COLS - 1) |-> EmptyLabel]]

\* mat.ravel().tolist(): the cells in row-major order, indexed from 0
ravel(mat) == [i \in 0..(ION_ROWS * ION_COLS - 1) |-> mat[i \div ION_COLS][i % ION_COLS]]

\* {name: i for i, name in enumerate(flat) if name}: a later cell with the
\* same name replaces the index of an earlier one
ion_to_idx(mat) ==
    LET flat == ravel(mat)
        names == {flat[i] : i \in DOMAIN flat} \ {EmptyLabel}
    IN  [name \in names |->
            CHOOSE i \in DOMAIN flat :
                /\ flat[i] = name
                /\ \A k \in DOMAIN flat : flat[k] = name => k <= i]

BuildInit ==
    /\ mgr = "predict"
    /\ Idle
    /\ call = [fn |-> "_build_annotation_matrix", pc |-> "series", row |-> 0, col |-> 0,
               mat |-> BlankMatrix, ion_to_idx |-> <<>>]

\* one iteration of one of the four loops over the b, b^2, y and y^2 rows
FillSeries ==
    /\ call.fn = "_build_annotation_matrix" /\ call.pc = "series"
    /\ LET row == call.row
           i == call.col
           last == i = ION_COLS - 1
       IN  call' = [call EXCEPT
                       !.mat[row][i] = SeriesLabel(row, i),
                       !.col = IF last THEN 0 ELSE i + 1,
                       !.row = IF last THEN row + 1 ELSE row,
                       !.pc = IF last /\ row = 3 THEN "internal" ELSE "series"]
    /\ UNCHANGED svc

\* one iteration of the loop over the cells of rows 4..30
FillInternal ==
    /\ call.fn = "_build_annotation_matrix" /\ call.pc = "internal"
    /\ LET row == call.row
           col == call.col
           last == col = ION_COLS - 1
       IN  call' = [call EXCEPT
                       !.mat[row][col] =
                           IF m_end(row, col) <= ION_COLS THEN InternalLabel(row, col) ELSE @,
                       !.col = IF last THEN 0 ELSE col + 1,
                       !.row = IF last THEN row + 1 ELSE row,
                       !.pc = IF last /\ row = ION_ROWS - 1 THEN "immonium" ELSE "internal"]
    /\ UNCHANGED svc

\* the immonium ions replace the last column of rows 0..3
FillImmonium ==
    /\ call.fn = "_build_annotation_matrix" /\ call.pc = "immonium"
    /\ call' = [call EXCEPT
                   !.mat = [row \in DOMAIN @ |->
                               IF row < 4 THEN [@[row] EXCEPT ![28] = ImmoniumLabel(row)]
                               ELSE @[row]],
                   !.pc = "index"]
    /\ UNCHANGED svc

BuildIndex ==
    /\ call.fn = "_build_annotation_matrix" /\ call.pc = "index"
    /\ call' = [call EXCEPT !.ion_to_idx = ion_to_idx(call.mat), !.pc = "done"]
    /\ UNCHANGED svc

BuildNext == FillSeries \/ FillInternal \/ FillImmonium \/ BuildIndex
BuildSpec == BuildInit /\ [][BuildNext]_vars

Built == call.fn = "_build_annotation_matrix" /\ call.pc = "done"

\* every non-empty label is in one cell only
LabelsUnique(mat) ==
    \A r1, r2 \in 0..(ION_ROWS - 1), c1, c2 \in 0..(ION_COLS - 1) :
        (mat[r1][c1] # EmptyLabel /\ mat[r1][c1] = mat[r2][c2]) => (r1 = r2 /\ c1 = c2)

\* the reverse map is the row-major index of the cell, for non-empty cells only
ReverseMap(mat, idx) ==
    /\ EmptyLabel \notin DOMAIN idx
    /\ \A r \in 0..(ION_ROWS - 1), c \in 0..(ION_COLS - 1) :
           mat[r][c] # EmptyLabel =>
               (mat[r][c] \in DOMAIN idx /\ idx[mat[r][c]] = r * ION_COLS + c)

\* C22 (as written): annotation[0,0] is "b1", annotation[1,28] is "IR",
\* annotation[4,0] is "m2:3"; every non-empty label is in exactly one cell,
\* and the reverse map sends the label of cell (r,c) to r*29+c and has no
\* entry for the empty label.
C22_AnnotationLayout ==
    Built =>
        /\ call.mat[0][0] = <<"b", "1">>
        /\ call.mat[1][28] = <<"I", "R">>
        /\ call.mat[4][0] = <<"m", "2", ":", "3">>
        /\ LabelsUnique(call.mat)
        /\ ReverseMap(call.mat, call.ion_to_idx)

\* C22 (amended): the same, with annotation[4,0] equal to "m2:4": row 4 holds
\* the fragments from start = col + 2 to end = start + 2.
C22_AnnotationLayout_Amended ==
    Built =>
        /\ call.mat[0][0] = <<"b", "1">>
        /\ call.mat[1][28] = <<"I", "R">>
        /\ call.mat[4][0] = <<"m", "2", ":", "4">>
        /\ LabelsUnique(call.mat)
        /\ ReverseMap(call.mat, call.ion_to_idx)

\* C22: the matrix is built, "m2:4" is the label of cell (4,0) and is sent
\* back to 4 * 29, and "IR" is sent to 1 * 29 + 28
C22_Witness ==
    /\ Built
    /\ call.mat[4][0] = <<"m", "2", ":", "4">>
    /\ call.ion_to_idx[<<"m", "2", ":", "4">>] = 116
    /\ call.ion_to_idx[<<"I", "R">>] = 57

-----------------------------------------------------------------------------
\* intensity_matrix_to_ion_list of ion_labels.py.  Intensities are integers
\* in units of 10^-7, so that rounding to six decimals does something; a
\* rounded intensity is in units of 10^-6 and a rounded m/z in units of 10^-4.

MaxNonzero == 2

\* the module constants, as _build_annotation_matrix leaves them
annotation(row, col) ==
    IF row < 4
    THEN IF col = 28 THEN ImmoniumLabel(row) ELSE SeriesLabel(row, col)
    ELSE IF m_end(row, col) <= ION_COLS THEN InternalLabel(row, col) ELSE EmptyLabel
ANNOTATION_MATRIX ==
    [row \in 0..(ION_ROWS - 1) |-> [col \in 0..(ION_COLS - 1) |-> annotation(row, col)]]

\* round(x, digits) of a quotient n / m >= 0, the tie going to the even digit
round(n, m) ==
    LET q == n \div m
        r == n % m
    IN  IF 2 * r < m THEN q
        ELSE IF 2 * r > m THEN q + 1
        ELSE IF q % 2 = 0 THEN q ELSE q + 1

\* the key of mz_map as the string compute_theoretical_mz formats
LabelText(l) == <<l[1]>> \o Decimal(l[2]) \o (IF l[3] = 2 THEN <<"^", "2">> ELSE <<>>)

\* round(mz_map.get(label, 0.0), 4)
mz_of(mz_map, label) ==
    IF \E l \in DOMAIN mz_map : LabelText(l) = label
    THEN LET q == mz_map[CHOOSE l \in DOMAIN mz_map : LabelText(l) = label]
         IN  round(q[1], 100 * q[2])
    ELSE 0

\* label.startswith(c)
startswith(label, c) == label # <<>> /\ label[1] = c

ion_type_category(label) ==
    IF startswith(label, "b") THEN "b"
    ELSE IF startswith(label, "y") THEN "y"
    ELSE IF startswith(label, "m") THEN "internal"
    ELSE IF startswith(label, "I") THEN "immonium"
    ELSE "other"

\* if intensity <= min_intensity: continue
below_min(intensity, min_intensity) == intensity <= min_intensity

\* if not label: continue
no_label_Never(label) == FALSE
no_label(label) == label = EmptyLabel

\* a set of cells (as loop counters) in the order the two loops visit them:
\* pos outside, ion_type inside
RECURSIVE InLoopOrder(_)
InLoopOrder(hits) ==
    IF hits = {} THEN <<>>
    ELSE LET k == CHOOSE x \in hits : \A y \in hits : x <= y
         IN  <<k>> \o InLoopOrder(hits \ {k})

\* ions.sort(key=intensity, reverse=True): a stable sort, so that records of
\* equal intensity keep the order of the loops
RECURSIVE sort_by_intensity(_)
sort_by_intensity(ions) ==
    IF ions = <<>> THEN <<>>
    ELSE LET rest == sort_by_intensity(Tail(ions))
             h == Head(ions)
             n == Cardinality({i \in 1..Len(rest) : rest[i].intensity > h.intensity})
         IN  SubSeq(rest, 1, n) \o <<h>> \o SubSeq(rest, n + 1, Len(rest))

intensity_matrix_to_ion_list(intensity_matrix, sequence, charge, min_intensity) ==
    LET mz_map == compute_theoretical_mz(sequence, charge)
        shape0 == Cardinality(DOMAIN intensity_matrix)
        shape1 == Cardinality(DOMAIN intensity_matrix[0])
        pos(k) == k \div shape1
        ion_type(k) == k % shape1
        hits == {k \in 0..(shape0 * shape1 - 1) :
                    /\ ~below_min(intensity_matrix[pos(k)][ion_type(k)], min_intensity)
                    /\ ~no_label(ANNOTATION_MATRIX[ion_type(k)][pos(k)])}
        ion_dict(k) ==
            LET label == ANNOTATION_MATRIX[ion_type(k)][pos(k)]
            IN  [label |-> label,
                 intensity |-> round(intensity_matrix[pos(k)][ion_type(k)], 10),
                 type |-> ion_type_category(label),
                 mz |-> mz_of(mz_map, label)]
        visited == InLoopOrder(hits)
    IN  sort_by_intensity([i \in 1..Len(visited) |-> ion_dict(visited[i])])

\* inputs: (29, 31) matrices with at most MaxNonzero nonzero cells, the first
\* anywhere, the others in two corners
Positions == 0..(ION_COLS - 1)
IonTypes == 0..(ION_ROWS - 1)
IntensityValues == {-5000000, 1234567, 5000000}
FirstEntries == Positions \X IonTypes \X IntensityValues
ExtraEntries == {<<0, 0, 9000000>>, <<28, 4, 9000000>>, <<3, 2, 5000000>>}
EntrySets ==
    {f \cup e :
        f \in {{}} \cup {{x} : x \in FirstEntries},
        e \in {s \in SUBSET ExtraEntries : Cardinality(s) < MaxNonzero}}
OneCellEach(entries) ==
    \A a, b \in entries : (a[1] = b[1] /\ a[2] = b[2]) => a = b
MatrixOf(entries) ==
    [p \in Positions |-> [t \in IonTypes |->
        IF \E e \in entries : e[1] = p /\ e[2] = t
        THEN (CHOOSE e \in entries : e[1] = p /\ e[2] = t)[3]
        ELSE 0]]
MinIntensities == {0, 3000000}

IonInit ==
    /\ mgr = "predict"
    /\ Idle
    /\ \E entries \in {s \in EntrySets : OneCellEach(s)}, m \in MinIntensities :
          call = [fn |-> "intensity_matrix_to_ion_list",
                  intensity_matrix |-> MatrixOf(entries),
                  sequence |-> SeqPlain, charge |-> 2, min_intensity |-> m,
                  pc |-> "call", ret |-> <<>>]

IonList ==
    /\ call.fn = "intensity_matrix_to_ion_list" /\ call.pc = "call"
    /\ call' = [call EXCEPT
                   !.pc = "done",
                   !.ret = intensity_matrix_to_ion_list(
                               call.intensity_matrix, call.sequence,
                               call.charge, call.min_intensity)]
    /\ UNCHANGED svc

IonSpec == IonInit /\ [][IonList]_vars

\* the nonzero cells of the matrix of the call
Nonzero ==
    {c \in Positions \X IonTypes : call.intensity_matrix[c[1]][c[2]] # 0}
Converted ==
    /\ call.fn = "intensity_matrix_to_ion_list" /\ call.pc = "done"
    /\ call.min_intensity = 0

\* C23 (as written): an all-zero matrix gives the empty list, and a matrix
\* with exactly one nonzero cell (p, t), whichever the cell, gives exactly
\* one record, whose label is annotation[t, p].
C23_OneRecordPerCell ==
    Converted =>
        /\ Nonzero = {} => call.ret = <<>>
        /\ \A c \in Nonzero :
               Nonzero = {c} =>
                   /\ Len(call.ret) = 1
                   /\ call.ret[1].label = ANNOTATION_MATRIX[c[2]][c[1]]

\* C23 (amended): an all-zero matrix gives the empty list; a matrix with
\* exactly one nonzero cell (p, t) gives exactly one record, with the label
\* annotation[t, p], when the value is positive and annotation[t, p] is not
\* empty, and the empty list otherwise.
C23_OneRecordPerLabelledCell ==
    Converted =>
        /\ Nonzero = {} => call.ret = <<>>
        /\ \A c \in Nonzero :
               Nonzero = {c} =>
                   IF /\ call.intensity_matrix[c[1]][c[2]] > 0
                      /\ ANNOTATION_MATRIX[c[2]][c[1]] # EmptyLabel
                   THEN /\ Len(call.ret) = 1
                        /\ call.ret[1].label = ANNOTATION_MATRIX[c[2]][c[1]]
                   ELSE call.ret = <<>>

\* C23: the only nonzero cell is (position 0, ion type 4) and the one record
\* returned is labelled "m2:4"
C23_Witness ==
    /\ Converted
    /\ Nonzero = {<<0, 4>>}
    /\ Len(call.ret) = 1
    /\ call.ret[1].label = <<"m", "2", ":", "4">>

\* the matrix that is built step by step is the constant the conversion reads
BuiltIsConstant ==
    Built => call.mat = ANNOTATION_MATRIX

-----------------------------------------------------------------------------
\* The target/decoy generator of the FLR pipeline: _step01_generate_td_list
\* from the encoding of the modifications on, and _step02_create_td_df, on a
\* search result of one row.  A Modified sequence is a sequence of residue
\* letters, underscores and modification texts; a modification text is one
\* element, and everything else is a sequence of characters.  The columns
\* SourceFile, Spectrum and PP.Charge are copied from row to row unchanged
\* and are left out.

MaxResidues == 4

Phospho == "(Phospho (STY))"
OxidationM == "(Oxidation (M))"
AcetylNterm == "(Acetyl (Protein N-term))"

STY == {"S", "T", "Y"}
Codes == {"1", "2", "3", "4"}

\* the search results: "_" around an optional acetyl group and up to
\* MaxResidues residues, any serine or threonine phosphorylated or not
ResiduePieces ==
    {<<"A">>, <<"C">>, <<"S">>, <<"T">>, <<"Y">>, <<"S", Phospho>>, <<"T", Phospho>>,
     <<"M", OxidationM>>}
ModifiedSequences ==
    {<<"_">> \o nt \o Flatten(rs) \o <<"_">> :
        nt \in {<<>>, <<AcetylNterm>>},
        rs \in UNION {[1..n -> ResiduePieces] : n \in 1..MaxResidues}}

\* str.replace of "_", of the modification texts and of "C"
RECURSIVE encode(_)
encode(s) ==
    IF s = <<>> THEN <<>>
    ELSE LET h == Head(s)
         IN  (IF h = "_" THEN <<>>
              ELSE IF h = Phospho THEN <<"1">>
              ELSE IF h = OxidationM THEN <<"2">>
              ELSE IF h = AcetylNterm THEN <<"4">>
              ELSE IF h = "C" THEN <<"C", "3">>
              ELSE <<h>>) \o encode(Tail(s))

\* str.contains(pat, regex=False)
contains(s, pat) ==
    \E i \in 1..(Len(s) - Len(pat) + 1) : SubSeq(s, i, i + Len(pat) - 1) = pat

AcetylPatterns ==
    {<<"4", "M", "2">>, <<"4", "S">>, <<"4", "T">>, <<"4", "Y">>, <<"4", "C">>}

\* str.count(ch) for the characters of a set
count(s, chars) == Cardinality({i \in 1..Len(s) : s[i] \in chars})

\* str.replace(ch, "") for the characters of a set
without(s, chars) == SelectSeq(s, LAMBDA c : c \notin chars)

\* list.insert(i, v), list.remove(v) and the exchange of two elements, on a
\* list indexed from 0
insert_AtEnd(l, i, v) == Append(l, v)
insert(l, i, v) ==
    IF i >= Len(l) THEN Append(l, v)
    ELSE SubSeq(l, 1, i) \o <<v>> \o SubSeq(l, i + 1, Len(l))
has(l, v) == \E i \in 1..Len(l) : l[i] = v
remove(l, v) ==
    LET i == CHOOSE i \in 1..Len(l) : l[i] = v /\ \A k \in 1..(i - 1) : l[k] # v
    IN  SubSeq(l, 1, i - 1) \o SubSeq(l, i + 1, Len(l))
discard(l, v) == IF has(l, v) THEN remove(l, v) ELSE l
swap(l, i, j) == [l EXCEPT ![i + 1] = l[j + 1], ![j + 1] = l[i + 1]]

\* random.sample(y, n): n elements of y at pairwise different places, in any order
samples(y, n) ==
    {[i \in 1..n |-> y[f[i]]] :
        f \in {g \in [1..n -> 1..Len(y)] : \A a, b \in 1..n : a # b => g[a] # g[b]}}

min(a, b) == IF a <= b THEN a ELSE b

\* a row of step1_TD_list.csv
Row(exp_strip, peptide, sequence) ==
    [exp_strip_sequence |-> exp_strip, Peptide |-> peptide, key |-> sequence]

TdInit ==
    /\ mgr = "ptm"
    /\ Idle
    /\ \E m \in ModifiedSequences :
          call = [fn |-> "_step01_generate_td_list", pc |-> "encode", modified |-> m,
                  peptide |-> <<>>, exp_strip |-> <<>>, key |-> <<>>, multi |-> FALSE,
                  sequence |-> <<>>, x |-> 0, y |-> <<>>, sty_list |-> <<>>,
                  b |-> <<>>, stynum |-> 0, rows |-> <<>>, td |-> <<>>]

\* the encoding, the acetyl filter, the mono-phospho filter and the choice of
\* the rows with more than one S/T/Y
Encode ==
    /\ call.fn = "_step01_generate_td_list" /\ call.pc = "encode"
    /\ LET peptide == encode(call.modified)
           kept == \A pat \in AcetylPatterns : ~contains(peptide, pat)
           exp_strip == without(peptide, Codes)
           key == without(peptide, {"1"})
           multi == kept /\ count(peptide, {"1"}) = 1 /\ count(exp_strip, STY) > 1
       IN  call' = [call EXCEPT
                       !.peptide = peptide, !.exp_strip = exp_strip, !.key = key,
                       !.multi = multi,
                       !.sequence = IF multi THEN key ELSE <<>>,
                       !.y = IF multi THEN [i \in 1..Len(key) |-> i - 1] ELSE <<>>,
                       !.pc = IF multi THEN "loop" ELSE "write"]
    /\ UNCHANGED svc

\* one iteration of `for x in range(len(sequence))`; the last one draws the
\* sample
Visit ==
    /\ call.fn = "_step01_generate_td_list" /\ call.pc = "loop"
    /\ LET x == call.x
           sequence == call.sequence
           ch == sequence[x + 1]
           y == call.y
           site == ch \in STY
           raised == site /\ ~has(y, x)
           marked == insert(sequence, x + 1, "1")
           after == IF site THEN remove(marked, "1") ELSE sequence
           y1 == IF site THEN discard(y, x)
                 ELSE IF ch \in {"2", "3"} THEN discard(discard(y, x), x - 1)
                 ELSE IF ch = "4" THEN discard(discard(y, x), x + 1)
                 ELSE y
           sty1 == IF site THEN Append(call.sty_list, x) ELSE call.sty_list
           rows1 == IF site
                    THEN Append(call.rows, Row(call.exp_strip, call.peptide, marked))
                    ELSE call.rows
           last == x = Len(after) - 1
           sample_count == min(Len(sty1), Len(y1))
       IN  IF raised
           THEN call' = [call EXCEPT !.pc = "raised", !.sty_list = sty1, !.rows = rows1,
                                     !.sequence = after]
           ELSE \E b \in (IF last THEN samples(y1, sample_count) ELSE {<<>>}) :
                   call' = [call EXCEPT
                               !.sequence = after, !.y = y1, !.sty_list = sty1,
                               !.rows = rows1, !.b = b, !.stynum = 0,
                               !.x = IF last THEN x ELSE x + 1,
                               !.pc = IF ~last THEN "loop"
                                      ELSE IF b = <<>> THEN "write" ELSE "decoy"]
    /\ UNCHANGED svc

\* one iteration of `for c in b`
Decoy ==
    /\ call.fn = "_step01_generate_td_list" /\ call.pc = "decoy"
    /\ LET c == call.b[call.stynum + 1]
           sty == call.sty_list[call.stynum + 1]
           swapped == swap(call.sequence, c, sty)
           marked == insert(swapped, c + 1, "1")
           after == swap(remove(marked, "1"), c, sty)
           stynum == call.stynum + 1
       IN  call' = [call EXCEPT
                       !.rows = Append(@, Row(call.exp_strip, call.peptide, marked)),
                       !.sequence = after,
                       !.stynum = stynum,
                       !.pc = IF stynum >= Len(call.b) \/ stynum >= Len(call.sty_list)
                              THEN "write" ELSE "decoy"]
    /\ UNCHANGED svc

\* result.to_csv(out_path): step 1 returns
WriteTdList ==
    /\ call.fn = "_step01_generate_td_list" /\ call.pc = "write"
    /\ call' = [call EXCEPT !.fn = "_step02_create_td_df", !.pc = "call"]
    /\ UNCHANGED svc

\* drop_duplicates() on the columns step 2 keeps: the first of equal rows stays
RECURSIVE drop_duplicates(_)
drop_duplicates(rows) ==
    IF rows = <<>> THEN <<>>
    ELSE LET n == Len(rows)
             front == drop_duplicates(SubSeq(rows, 1, n - 1))
         IN  IF has(front, rows[n]) THEN front ELSE Append(front, rows[n])

\* strip_key, with the codes it removes
strip_key_Leaves3(key_x) == without(key_x, {"1", "2", "4"})
strip_key(key_x) == without(key_x, {"1", "2", "3", "4"})

TD_label(row) ==
    IF strip_key(row.key_x) # row.StrippedSequence THEN "decoy" ELSE "target"

create_td_df(csv) ==
    LET modelresult ==
            drop_duplicates([i \in 1..Len(csv) |->
                [key_x |-> csv[i].key, StrippedSequence |-> csv[i].exp_strip_sequence]])
    IN  [i \in 1..Len(modelresult) |->
            [key_x |-> modelresult[i].key_x,
             StrippedSequence |-> modelresult[i].StrippedSequence,
             TD_label |-> TD_label(modelresult[i])]]

Step02 ==
    /\ call.fn = "_step02_create_td_df" /\ call.pc = "call"
    /\ call' = [call EXCEPT !.td = create_td_df(call.rows), !.pc = "done"]
    /\ UNCHANGED svc

TdNext == Encode \/ Visit \/ Decoy \/ WriteTdList \/ Step02
TdSpec == TdInit /\ [][TdNext]_vars

\* the S/T/Y sites of a key, counted from 0, and the positions a site may be
\* moved to: a residue that is no S/T/Y, carries no modification code and
\* does not follow the acetyl code
Sites(key) == {x \in 0..(Len(key) - 1) : key[x + 1] \in STY}
Eligible(key) ==
    {x \in 0..(Len(key) - 1) :
        /\ key[x + 1] \notin STY \cup Codes
        /\ ~(x + 2 <= Len(key) /\ key[x + 2] \in {"2", "3"})
        /\ ~(x >= 1 /\ key[x] = "4")}
\* the i-th site from the left
Site(key, i) ==
    CHOOSE x \in Sites(key) : Cardinality({s \in Sites(key) : s < x}) = i - 1
\* a sequence with the phospho mark directly after position x
MarkedAfter(seq, x) == SubSeq(seq, 1, x + 1) \o <<"1">> \o SubSeq(seq, x + 2, Len(seq))
\* the position the mark of an emitted key follows
MarkedPosition(key) == (CHOOSE i \in 1..Len(key) : key[i] = "1") - 2

\* step 1 has returned for a mono-phospho row that reached the generator
Generated ==
    /\ call.fn = "_step02_create_td_df"
    /\ \A pat \in AcetylPatterns : ~contains(call.peptide, pat)
    /\ count(call.peptide, {"1"}) = 1

\* C24: of the mono-phospho rows that reach the generator, one with exactly
\* one S/T/Y gives no row; one with k > 1 S/T/Y gives exactly k target rows,
\* the i-th with the phospho mark directly after the i-th S/T/Y, and then
\* min(k, number of eligible positions) decoy rows, each a site exchanged
\* with an eligible position and marked there, at pairwise distinct positions.
C24_TargetsThenDecoys ==
    Generated =>
        LET key == call.key
            k == Cardinality(Sites(key))
            d == min(k, Cardinality(Eligible(key)))
            rows == call.rows
        IN  /\ k = 1 => rows = <<>>
            /\ k > 1 =>
                  /\ Len(rows) = k + d
                  /\ \A i \in 1..k : rows[i].key = MarkedAfter(key, Site(key, i))
                  /\ \A j \in (k + 1)..(k + d) :
                        \E c \in Eligible(key), s \in Sites(key) :
                            rows[j].key = MarkedAfter(swap(key, c, s), c)
                  /\ \A i, j \in (k + 1)..(k + d) :
                        i # j => MarkedPosition(rows[i].key) # MarkedPosition(rows[j].key)

\* C24: "_S(ph)TAA_": two sites, two eligible positions, two targets and then
\* two decoys
C24_Witness ==
    /\ Generated
    /\ call.key = <<"S", "T", "A", "A">>
    /\ Len(call.rows) = 4
    /\ call.rows[2].key = <<"S", "T", "1", "A", "A">>
    /\ call.rows[3].key = <<"A", "T", "S", "1", "A">>

\* the last row of step 1 and what step 2 makes of a row
Emitted == call'.rows[Len(call'.rows)]
SameStripped(row) == without(row.key, Codes) = row.exp_strip_sequence
LabelOf(row, td) ==
    {t.TD_label : t \in {td[i] : i \in 1..Len(td)} \cap
                         {u \in {td[i] : i \in 1..Len(td)} : u.key_x = row.key}}

\* C30: a row that step 1 emits by marking a site has the stripped sequence
\* of the original and is labelled target by step 2; a row that it emits by
\* exchanging a site with a sampled position has another stripped sequence
\* and is labelled decoy; after each emitted row the working sequence is the
\* original key again.
C30_Step ==
    /\ (call.fn = "_step01_generate_td_list" /\ Len(call'.rows) = Len(call.rows) + 1) =>
           /\ call.pc = "loop" => SameStripped(Emitted)
           /\ call.pc = "decoy" => ~SameStripped(Emitted)
           /\ Emitted.exp_strip_sequence = without(call.key, Codes)
           /\ call'.sequence = call.key
    /\ (call.fn = "_step02_create_td_df" /\ call'.pc = "done") =>
           \A i \in 1..Len(call.rows) :
               LabelOf(call.rows[i], call'.td) =
                   {IF SameStripped(call.rows[i]) THEN "target" ELSE "decoy"}
C30_TargetDecoyAgree == [][C30_Step]_vars

\* C30: step 2 has labelled the rows of a key with a cysteine code, a target
\* and a decoy among them
C30_Witness ==
    /\ call.fn = "_step02_create_td_df" /\ call.pc = "done"
    /\ has(call.key, "3")
    /\ \E i, j \in 1..Len(call.td) :
           call.td[i].TD_label = "target" /\ call.td[j].TD_label = "decoy"

-----------------------------------------------------------------------------
\* Locking.  A block `with self._lock:` that only reads or assigns is one
\* step, taken when the lock is free; only cleanup_old_jobs keeps the lock
\* from one step to the next.

\* the threads that are at a `with self._lock:` and cannot enter it
WaitsForLock(j) ==
    /\ lock # "free"
    /\ \/ sub[j] = "created"
       \/ thread[j].pc \in {"begin", "loop", "cb_pre", "cb_post", "complete",
                            "except", "finally"}

\* C25: the lock is never held across a blocking operation: a step of the
\* thread that holds the lock leaves the job directories and their files
\* as they are.
C25_NoIoUnderLock ==
    [][(lock # "free" /\ cl' # cl) => (dirs' = dirs /\ files' = files)]_vars

\* C25: cleanup holds the lock with directories still to delete, and a
\* worker or a submit is waiting for the lock
C25_WaitsOnRmtree ==
    /\ lock = "cleanup" /\ cl.pc = "remove"
    /\ cl.to_remove \cap dirs # {}
    /\ \E j \in JobSlots : WaitsForLock(j)

\* what a change of status brings with it when it is applied as a whole
WholeTransition(old, new) ==
    /\ (new.status = RUNNING /\ old.status # RUNNING) => new.started_at # NoTime
    /\ (new.status = COMPLETED /\ old.status # COMPLETED) =>
           /\ new.finished_at # NoTime
           /\ mgr = "batch" => new.processed = new.total_samples
           /\ mgr \in PipelineManagers =>
                  new.current_step = new.total_steps /\ new.step_message = "Done"
    /\ (new.status = FAILED /\ old.status # FAILED) =>
           new.finished_at # NoTime /\ new.error # NoError

\* C26: every write to a job record or to the registry map is made with the
\* lock held: a record that submit has constructed changes only in a step
\* that takes the lock, and then by a whole transition; the registry changes
\* only in a step that takes the lock or in a step of cleanup, which holds it.
C26_WritesUnderLock ==
    [][/\ \A j \in JobSlots :
              (Created(j) /\ jobs'[j] # jobs[j]) =>
                  /\ lock = "free" /\ lock' = "free"
                  /\ WholeTransition(jobs[j], jobs'[j])
       /\ registry' # registry =>
              \/ lock = "free" /\ lock' = "free"
              \/ lock = "cleanup" /\ cl' # cl]_vars

\* C26: a running job whose callbacks have written progress is in the
\* registry, where a status read can take the lock and see it
C26_Witness ==
    \E j \in JobSlots :
        /\ Created(j)
        /\ lock = "free"
        /\ registry[Dir(j)] = j
        /\ jobs[j].status = RUNNING
        /\ jobs[j].processed > 0 \/ jobs[j].current_step > 1

\* C28: a record is consistent with its status: pending, no start and no
\* finish time; running, a start time, no finish time and no error;
\* completed, a finish time, no error, and processed = total_samples (batch)
\* or current_step = total_steps (pipelines); failed, a finish time and an
\* error.
C28_RecordConsistent ==
    \A j \in JobSlots :
        Created(j) =>
            LET rec == jobs[j]
            IN  /\ rec.status = PENDING =>
                       rec.started_at = NoTime /\ rec.finished_at = NoTime
                /\ rec.status = RUNNING =>
                       /\ rec.started_at # NoTime
                       /\ rec.finished_at = NoTime /\ rec.error = NoError
                /\ rec.status = COMPLETED =>
                       /\ rec.finished_at # NoTime /\ rec.error = NoError
                       /\ mgr = "batch" => rec.processed = rec.total_samples
                       /\ mgr \in PipelineManagers => rec.current_step = rec.total_steps
                /\ rec.status = FAILED =>
                       rec.finished_at # NoTime /\ rec.error # NoError

\* C28: a completed and a failed job side by side
C28_Witness ==
    \E i, j \in JobSlots :
        /\ Created(i) /\ Created(j)
        /\ jobs[i].status = COMPLETED /\ jobs[i].finished_at # NoTime
        /\ jobs[j].status = FAILED /\ jobs[j].error # NoError

\* C27: no step modifies or deletes an artifact of an earlier step: when
\* step k of a job returns or raises, every file written by the steps before
\* it has the content it had.
C27_EarlierArtifactsKept ==
    [][\A j \in JobSlots :
           (thread[j].pc = "step" /\ thread'[j] # thread[j]) =>
               \A k0 \in 1..(thread[j].k - 1) :
                   \A name \in StepOutputs(mgr, k0) :
                       Content(Dir(j), name)' = Content(Dir(j), name)]_vars

\* C27: the FLR pipeline is past its prediction step and the input file that
\* step 4 wrote now holds the dataset Intpredict
C27_PredictionAppended ==
    \E j \in JobSlots :
        /\ mgr = "ptm" /\ Created(j) /\ thread[j].k = 6
        /\ File(Dir(j), "step4_mamba_input.h5") \in files
        /\ Dataset(Dir(j), "step4_mamba_input.h5", "Intpredict") \in files

\* JobManager.get_result_path, with a variant that does not look at the status
get_result_path_AnyStatus(job_id) ==
    LET job == get_status(job_id)
    IN  IF job = 0 THEN None
        ELSE IF File(job_id, "result.h5") \in files THEN File(job_id, "result.h5")
        ELSE None
get_result_path(job_id) ==
    LET job == get_status(job_id)
    IN  IF job = 0 \/ jobs[job].status # COMPLETED THEN None
        ELSE IF File(job_id, "result.h5") \in files THEN File(job_id, "result.h5")
        ELSE None

\* C29: a batch job becomes completed only after its result file has been
\* written: the worker reaches its success block only from a save that left
\* result.h5 in the job directory; and get_result_path gives a path only for
\* an id that is in the registry with status completed and whose result.h5
\* exists, and nothing for a pending, running, failed or unknown or
\* cleaned-up job.
C29_ResultPath ==
    /\ [](mgr = "batch" =>
            \A id \in IDs :
                LET r == get_result_path(id)
                IN  /\ r # None =>
                           /\ registry[id] # 0
                           /\ jobs[registry[id]].status = COMPLETED
                           /\ r = File(id, "result.h5") /\ r \in files
                    /\ registry[id] = 0 => r = None
                    /\ (registry[id] # 0 /\ jobs[registry[id]].status # COMPLETED)
                           => r = None)
    /\ [][mgr = "batch" =>
            \A j \in JobSlots :
                /\ (jobs'[j].status = COMPLETED /\ jobs[j].status # COMPLETED)
                       => thread[j].pc = "complete"
                /\ (thread'[j].pc = "complete" /\ thread[j].pc # "complete")
                       => File(Dir(j), "result.h5") \in files']_vars

\* C29: a completed batch job in the registry, and the path of its result
C29_Witness ==
    \E id \in IDs :
        /\ mgr = "batch" /\ registry[id] # 0
        /\ jobs[registry[id]].status = COMPLETED
        /\ get_result_path(id) = File(id, "result.h5")

====
